---- MODULE Spec2Model ----
(***************************************************************************)
(* Model of the episode_manager record store (src/episode_manager/db.py):  *)
(* the dirty flag, the Metadata API, the migration pipeline, and the       *)
(* load / save orchestration over the numbered snapshot files.             *)
(*                                                                         *)
(* Encoding of Python values:                                              *)
(*   - a dict is a function whose DOMAIN is its key set;                   *)
(*   - a list is a sequence;                                               *)
(*   - timestamps ('YYYY-MM-DD hh:mm:ss' strings, compared as strings) are *)
(*     positive integers with the same order; the literal                  *)
(*     '0000-00-00 00:00:00' is 0;                                         *)
(*   - None stored as a value is PyNone, the boolean True stored in the    *)
(*     "archived" field of old stores is PyTrue.                           *)
(***************************************************************************)
EXTENDS Integers, Sequences, FiniteSets, TLC

\* ------------------------------------------------------------------------
\* Bounds of the model
\* ------------------------------------------------------------------------
MaxBackups == 2      \* 'num-backups' is drawn from 1..MaxBackups
MaxMuts    == 2      \* Metadata API calls, per behaviour
MaxTime    == 2      \* timestamps of the stores given to _migrate: 1..MaxTime
MaxHistory == 3      \* longest update-history given to _migrate
MaxMigrations == 2   \* _migrate runs on one store

\* ------------------------------------------------------------------------
\* Program constants
\* ------------------------------------------------------------------------
DB_VERSION == 4

meta_key                 == "epm:meta"
meta_added_key           == "added"
meta_seen_key            == "seen"
meta_archived_key        == "archived"
meta_list_index_key      == "list_index"
meta_next_list_index_key == "next_list_index"
meta_update_check_key    == "update_check"
meta_update_history_key  == "update_history"
meta_rating_key          == "rating"
meta_version_key         == "version"
meta_changes_log_key     == "changes_log"

meta_legacy_keys ==
    << meta_added_key, meta_update_check_key, meta_seen_key, meta_archived_key >>

PyNone == -1
PyTrue == -2

\* ------------------------------------------------------------------------
\* dict helpers
\* ------------------------------------------------------------------------
EmptyDict == [k \in {} |-> 0]

Has(d, k) == k \in DOMAIN d

Put(d, k, v) == [x \in (DOMAIN d) \cup {k} |-> IF x = k THEN v ELSE d[x]]

Del(d, k) == [x \in (DOMAIN d) \ {k} |-> d[x]]

Range(s) == {s[i] : i \in DOMAIN s}

\* ------------------------------------------------------------------------
\* Metadata API (db.py 460-500).  Each operator returns the object after the
\* call; the calling action sets the dirty flag as the code does.
\* ------------------------------------------------------------------------
MetaOf(obj) == IF Has(obj, meta_key) THEN obj[meta_key] ELSE EmptyDict

\* meta_get(obj, key, def_value)
meta_get(obj, key, def_value) ==
    IF Has(MetaOf(obj), key) THEN MetaOf(obj)[key] ELSE def_value

\* "key in obj.get(meta_key, {})"
MetaHasKey(obj, key) == Has(MetaOf(obj), key)

\* meta_has(obj, key): the value is there and is not None (scalar keys)
meta_has(obj, key) == MetaHasKey(obj, key) /\ MetaOf(obj)[key] # PyNone

\* meta_set(obj, key, value): creates the sub-record when it is absent
meta_set(obj, key, value) == Put(obj, meta_key, Put(MetaOf(obj), key, value))

\* meta_del(obj, key): "obj[meta_key].pop(key, None)" raises KeyError when
\* the object has no sub-record at all
meta_del_raises(obj) == ~Has(obj, meta_key)

meta_del_sets_dirty(obj, key) == MetaHasKey(obj, key)

meta_del(obj, key) == Put(obj, meta_key, Del(obj[meta_key], key))

\* meta_copy(source, destination): destination's sub-record becomes source's
meta_copy(source, destination) == Put(destination, meta_key, MetaOf(source))

\* changelog_add(obj, message, subject): the entry is appended as a tuple
LogEntry(message, subject) == [tuple |-> TRUE, message |-> message, subject |-> subject]

changelog_add(obj, message, subject) ==
    meta_set(obj, meta_changes_log_key,
             Append(meta_get(obj, meta_changes_log_key, << >>),
                    LogEntry(message, subject)))

\* all_ids(db): every key but the reserved one
all_ids(db) == (DOMAIN db) \ {meta_key}

\* ------------------------------------------------------------------------
\* Migration pipeline (db.py 100-219)
\* ------------------------------------------------------------------------

\* Keys whose values are scalars (and so may hold None), per nesting level
TopScalarKeys  == {"id", "runtime", meta_added_key, meta_update_check_key, meta_archived_key}
MetaScalarKeys == {meta_added_key, meta_archived_key, meta_list_index_key,
                   meta_update_check_key, "updated", meta_rating_key,
                   meta_version_key, meta_next_list_index_key}
EpisodeScalarKeys == {"season", "episode", "date"}

\* _del_empty on a dict none of whose values is a dict or a list:
\* the keys holding None are deleted
StripFlat(d, keys) ==
    [k \in {x \in DOMAIN d : ~(x \in keys /\ d[x] = PyNone)} |-> d[k]]

NullsFlat(d, keys) == Cardinality({x \in (DOMAIN d) \cap keys : d[x] = PyNone})

\* _del_empty on a metadata sub-record: its scalars, then the "seen" dict;
\* the lists it holds (update_history, changes_log) have no dict items
DelEmptyMetaSeen(m) ==
    [k \in DOMAIN m |-> IF k = meta_seen_key THEN StripFlat(m[k], DOMAIN m[k]) ELSE m[k]]

DelEmptyMeta(m) == DelEmptyMetaSeen(StripFlat(m, MetaScalarKeys))

NullsMeta(m) ==
    NullsFlat(m, MetaScalarKeys)
    + (IF Has(m, meta_seen_key)
       THEN NullsFlat(m[meta_seen_key], DOMAIN m[meta_seen_key]) ELSE 0)

RECURSIVE SumSeq(_)
SumSeq(s) == IF s = << >> THEN 0 ELSE Head(s) + SumSeq(Tail(s))

\* _del_empty below the top level of a record: the legacy "seen" dict, the
\* dicts of the "episodes" list, the sub-record
DelEmptyNested(s) ==
    [k \in DOMAIN s |->
        IF k = meta_seen_key THEN StripFlat(s[k], DOMAIN s[k])
        ELSE IF k = "episodes" THEN [i \in DOMAIN s[k] |-> StripFlat(s[k][i], EpisodeScalarKeys)]
        ELSE IF k = meta_key THEN DelEmptyMeta(s[k])
        ELSE s[k]]

\* _del_empty(series): db.py 152-166
_del_empty(series) == DelEmptyNested(StripFlat(series, TopScalarKeys))

\* the number of keys _del_empty(series) deletes (fixed_nulls)
NullCount(series) ==
    NullsFlat(series, TopScalarKeys)
    + (IF Has(series, meta_seen_key)
       THEN NullsFlat(series[meta_seen_key], DOMAIN series[meta_seen_key]) ELSE 0)
    + (IF Has(series, "episodes")
       THEN SumSeq([i \in DOMAIN series["episodes"] |->
                        NullsFlat(series["episodes"][i], EpisodeScalarKeys)])
       ELSE 0)
    + (IF Has(series, meta_key) THEN NullsMeta(series[meta_key]) ELSE 0)

\* list.sort() of a list of timestamps
RECURSIVE Insert(_, _)
Insert(x, s) ==
    IF s = << >> THEN << x >>
    ELSE IF x < Head(s) THEN << x >> \o s
    ELSE << Head(s) >> \o Insert(x, Tail(s))

RECURSIVE SortList(_)
SortList(s) == IF s = << >> THEN << >> ELSE Insert(s[Len(s)], SortList(SubSeq(s, 1, Len(s) - 1)))

RemoveAt(s, i) == SubSeq(s, 1, i - 1) \o SubSeq(s, i + 1, Len(s))

\* a de-duplication loop that steps on after a deletion as well
RECURSIVE DedupLoopSkips(_, _, _)
DedupLoopSkips(h, idx, mods) ==
    IF Len(h) >= 2 /\ idx < Len(h)
    THEN IF idx > 0 /\ h[idx] = h[idx + 1]
         THEN DedupLoopSkips(RemoveAt(h, idx), idx + 1, mods + 1)
         ELSE DedupLoopSkips(h, idx + 1, mods)
    ELSE [history |-> h, mods |-> mods]

\* the de-duplication loop, db.py 173-178; idx is the code's 0-based index,
\* so history[idx - 1] and history[idx] are h[idx] and h[idx + 1] here
RECURSIVE DedupLoop(_, _, _)
DedupLoop(h, idx, mods) ==
    IF Len(h) >= 2 /\ idx < Len(h)
    THEN IF idx > 0 /\ h[idx] = h[idx + 1]
         THEN DedupLoop(RemoveAt(h, idx), idx, mods + 1)
         ELSE DedupLoop(h, idx + 1, mods)
    ELSE [history |-> h, mods |-> mods]

\* --- per-record passes ---------------------------------------------------

\* db.py 118-124: the legacy top-level keys move into a new sub-record
MoveLegacy(series) ==
    LET legacy == {k \in Range(meta_legacy_keys) : Has(series, k)}
    IN  Put([k \in (DOMAIN series) \ legacy |-> series[k]],
            meta_key, [k \in legacy |-> series[k]])

\* db.py 126: meta_get(series, 'archived') == True
ArchivedIsTrue(series) == meta_get(series, meta_archived_key, PyNone) = PyTrue

\* db.py 128-133: "seen.values()" fails on a record without a seen map, and
\* "dt > last_seen" fails on a None timestamp
FixArchivedRaises(series) ==
    \/ ~MetaHasKey(series, meta_seen_key)
    \/ PyNone \in Range(MetaOf(series)[meta_seen_key])

\* db.py 129-133: the latest watched timestamp, '0000-00-00 00:00:00' if none
LastSeenTime(seen) ==
    LET ts == Range(seen) \cup {0}
    IN  CHOOSE t \in ts : \A u \in ts : u <= t

\* Python truth value of a timestamp-or-None read with meta_get
Truthy(series, key) == meta_has(series, key)

\* "not update_history": no history, or an empty one
NoHistory(series) ==
    \/ ~MetaHasKey(series, meta_update_history_key)
    \/ MetaOf(series)[meta_update_history_key] = << >>

\* db.py 168-182: sort, then drop equal neighbours; the list is changed in
\* place, not through meta_set
HistoryPass(series) ==
    LET h  == MetaOf(series)[meta_update_history_key]
        dd == DedupLoop(SortList(h), 0, 0)
    IN  IF Len(h) >= 2
        THEN [series |-> Put(series, meta_key,
                             Put(series[meta_key], meta_update_history_key, dd.history)),
              mods |-> dd.mods]
        ELSE [series |-> series, mods |-> 0]

\* The body of the loop over all_ids(db), db.py 114-182, for one record of a
\* store whose stored version is v, as a chain of passes over
\*   series   the record so far
\*   dirty    set_dirty() was called (through meta_set / meta_del)
\*   legacy, archived, history, nulls, dups   what the pass adds to
\*            fixed_legacy_meta, fixed_archived, fixed_update_history,
\*            fixed_nulls, fixed_update_history_dups
\*   raised   the pass ended by an exception
StartSeries(series, v) ==
    [series |-> series, v |-> v, dirty |-> FALSE, legacy |-> 0, archived |-> 0,
     history |-> 0, nulls |-> 0, dups |-> 0, raised |-> FALSE]

\* db.py 117-124
PassLegacy(r) ==
    IF r.v < 1 /\ ~Has(r.series, meta_key)
    THEN [r EXCEPT !.series = MoveLegacy(@), !.legacy = 1]
    ELSE r

\* db.py 126-136
PassArchived(r) ==
    IF r.v < 1 /\ ArchivedIsTrue(r.series)
    THEN IF FixArchivedRaises(r.series)
         THEN [r EXCEPT !.raised = TRUE]
         ELSE [r EXCEPT !.series = meta_set(@, meta_archived_key,
                                            LastSeenTime(MetaOf(@)[meta_seen_key])),
                        !.dirty = TRUE,
                        !.archived = 1]
    ELSE r

\* db.py 138-147
PassUpdated(r) ==
    IF ~r.raised /\ r.v < 3 /\ Truthy(r.series, "updated")
    THEN LET last_update == MetaOf(r.series)["updated"]
             renamed     == meta_del(meta_set(r.series, meta_update_check_key, last_update),
                                     "updated")
         IN  IF NoHistory(renamed)
             THEN [r EXCEPT !.series = meta_set(renamed, meta_update_history_key,
                                                << last_update >>),
                            !.dirty = TRUE,
                            !.history = 1]
             ELSE [r EXCEPT !.series = renamed, !.dirty = TRUE]
    ELSE r

\* db.py 149: series.pop('id', None)
PassDropId(r) ==
    IF ~r.raised /\ r.v < 3 THEN [r EXCEPT !.series = Del(@, "id")] ELSE r

\* db.py 151-166
PassNulls(r) ==
    IF ~r.raised /\ r.v < 4
    THEN [r EXCEPT !.series = _del_empty(@), !.nulls = NullCount(r.series)]
    ELSE r

\* db.py 168-182: len(history) fails when the record has no update-history;
\* series['title'] is read when duplicates were removed
PassHistory(r) ==
    IF r.raised THEN r
    ELSE IF ~MetaHasKey(r.series, meta_update_history_key)
    THEN [r EXCEPT !.raised = TRUE]
    ELSE LET hp == HistoryPass(r.series)
         IN  IF hp.mods > 0 /\ ~Has(r.series, "title")
             THEN [r EXCEPT !.raised = TRUE]
             ELSE [r EXCEPT !.series = hp.series, !.dups = hp.mods]

MigrateSeries(series, v) ==
    PassHistory(PassNulls(PassDropId(PassUpdated(PassArchived(PassLegacy(
        StartSeries(series, v)))))))

\* --- store-level passes ------------------------------------------------

\* db.py 106: db[meta_key].get('version', 0)
StoredVersion(db) ==
    IF Has(db[meta_key], meta_version_key) THEN db[meta_key][meta_version_key] ELSE 0

\* the sort key of db.py 187, None when the value has no added-timestamp
AddedIsNone(value) == ~meta_has(value, meta_added_key)

\* iteration order of the dict, used by sorted() to order equal keys
KeyRank(k) == IF k = meta_key THEN 0 ELSE IF k = "s1" THEN 1 ELSE IF k = "s2" THEN 2 ELSE 3

\* db.py 187: sorted() compares the keys; a None among two or more raises
SortRaises(db) ==
    Cardinality(DOMAIN db) >= 2 /\ \E k \in DOMAIN db : AddedIsNone(db[k])

SortsBefore(db, j, k) ==
    LET aj == MetaOf(db[j])[meta_added_key]
        ak == MetaOf(db[k])[meta_added_key]
    IN  aj < ak \/ (aj = ak /\ KeyRank(j) < KeyRank(k))

\* db.py 186-189: every value of the dict, in sorted order, gets the next index
AssignListIndexes(db) ==
    IF Cardinality(DOMAIN db) = 1
    THEN [k \in DOMAIN db |-> meta_set(db[k], meta_list_index_key, 1)]
    ELSE [k \in DOMAIN db |->
             meta_set(db[k], meta_list_index_key,
                      1 + Cardinality({j \in DOMAIN db : SortsBefore(db, j, k)}))]

\* db.py 193-195
WriteVersion(db, db_version) ==
    IF db_version # DB_VERSION THEN meta_set(db, meta_version_key, DB_VERSION) ELSE db

\* db.py 197-198
WriteNextIndex(db, db_version) ==
    IF db_version < 2
    THEN meta_set(db, meta_next_list_index_key, Cardinality(DOMAIN db) + 1)
    ELSE db

\* _migrate(db) as a chain of passes over
\*   db       the store so far
\*   v        db_version, read once at db.py 106
\*   dirty    the flag
\*   raised   _migrate ended by an exception

\* db.py 102-106
StartMigrate(db, dirty) ==
    [db     |-> IF Has(db, meta_key) THEN db ELSE Put(db, meta_key, EmptyDict),
     v      |-> IF Has(db, meta_key) THEN StoredVersion(db) ELSE 0,
     dirty  |-> dirty \/ ~Has(db, meta_key),
     raised |-> FALSE]

SeriesFixed(r) ==
    r.dirty \/ r.legacy + r.archived + r.history + r.nulls + r.dups > 0

\* db.py 114-182 and 201-219: the records, and the flag set for the counts
PassRecords(m) ==
    LET per == [sid \in all_ids(m.db) |-> MigrateSeries(m.db[sid], m.v)]
    IN  [m EXCEPT !.db     = [k \in DOMAIN m.db |->
                                 IF k = meta_key THEN m.db[k] ELSE per[k].series],
                  !.dirty  = m.dirty \/ \E sid \in all_ids(m.db) : SeriesFixed(per[sid]),
                  !.raised = \E sid \in all_ids(m.db) : per[sid].raised]

\* db.py 184-190
PassListIndex(m) ==
    IF m.raised \/ m.v >= 2 THEN m
    ELSE IF SortRaises(m.db)
    THEN [m EXCEPT !.raised = TRUE]
    ELSE [m EXCEPT !.db = AssignListIndexes(@), !.dirty = TRUE]

\* a version pass that writes the version and sets the flag on every run
PassVersionAlways(m) ==
    IF m.raised THEN m
    ELSE [m EXCEPT !.db = meta_set(@, meta_version_key, DB_VERSION), !.dirty = TRUE]

\* db.py 192-195
PassVersion(m) ==
    IF m.raised THEN m
    ELSE [m EXCEPT !.db = WriteVersion(@, m.v), !.dirty = m.dirty \/ m.v # DB_VERSION]

\* db.py 197-199
PassNextIndex(m) ==
    IF m.raised THEN m ELSE [m EXCEPT !.db = WriteNextIndex(@, m.v)]

\* what the caller sees: the store and the flag when _migrate returns, or
\* raised = TRUE when it ends by an exception (load then does not return;
\* db and dirty are then given as they were)
MigrateResult(m, db, dirty) ==
    IF m.raised
    THEN [db |-> db, dirty |-> dirty, raised |-> TRUE]
    ELSE [db |-> m.db, dirty |-> m.dirty, raised |-> FALSE]

\* _migrate(db), started with the flag at `dirty`
_migrate(db, dirty) ==
    MigrateResult(
        PassNextIndex(PassVersion(PassListIndex(PassRecords(StartMigrate(db, dirty))))),
        db, dirty)

\* ------------------------------------------------------------------------
\* Stores given to _migrate
\* ------------------------------------------------------------------------
SeriesIds == {"s1", "s2"}

Times == 1..MaxTime

\* the dicts with key k absent, or holding one of the values V
OptKey(k, V) == {EmptyDict} \cup {(k :> v) : v \in V}

RECURSIVE SeqsUpTo(_, _)
SeqsUpTo(S, n) ==
    IF n = 0 THEN {<< >>}
    ELSE LET shorter == SeqsUpTo(S, n - 1)
         IN  shorter \cup {Append(q, x) : q \in {r \in shorter : Len(r) = n - 1}, x \in S}

Histories == SeqsUpTo(Times, MaxHistory)

SeenMaps == {EmptyDict, ("1:1" :> 1), ("1:1" :> 1 @@ "1:2" :> MaxTime), ("1:1" :> PyNone)}

\* records that exercise the version < 1 passes, in the old layout (legacy
\* keys at top level) and in the sub-record layout
ArchivedFields ==
    {a @@ b : a \in OptKey(meta_archived_key, {PyTrue, 1}),
              b \in OptKey(meta_seen_key, SeenMaps)}

LegacySeries ==
    {("title" :> << "A" >>) @@ f : f \in ArchivedFields}
    \cup {("title" :> << "A" >>) @@ (meta_key :> (f @@ (meta_update_history_key :> << 1 >>))) :
             f \in ArchivedFields}

\* records that exercise the version < 3 passes and the history pass
UpdateSeries ==
    {("title" :> << "A" >>) @@ i @@ (meta_key :> (u @@ c @@ h)) :
        i \in OptKey("id", {7}),
        u \in OptKey("updated", {1, PyNone}),
        c \in OptKey(meta_update_check_key, {MaxTime}),
        h \in OptKey(meta_update_history_key, Histories)}

\* records that exercise the version < 4 pass
NullSeries ==
    {("title" :> << "A" >>) @@ r @@ e @@ (meta_key :> (g @@ (meta_update_history_key :> << 1 >>))) :
        r \in OptKey("runtime", {PyNone, 45}),
        e \in OptKey("episodes",
                     {<< [season |-> 1, episode |-> 1, date |-> PyNone] >>,
                      << [season |-> 1, episode |-> 1, date |-> 1],
                         [season |-> 1, episode |-> 2] >>}),
        g \in {x @@ y : x \in OptKey(meta_rating_key, {PyNone, 3}),
                        y \in OptKey(meta_seen_key, {("1:1" :> 1 @@ "S:1" :> PyNone)})}}

SeriesInputs == LegacySeries \cup UpdateSeries \cup NullSeries

\* a second record, to have stores of two
SecondSeries ==
    {("title" :> << "B" >>) @@ (meta_key :> (meta_added_key :> 1 @@ meta_update_history_key :> << 1, 1 >>)),
     ("title" :> << "B" >>) @@ (meta_key :> (meta_update_history_key :> << >>))}

\* the store's own sub-record: absent, without a version, or at version 0..5
RootInputs ==
    {EmptyDict} \cup {(meta_key :> m) : m \in OptKey(meta_version_key, 0..(DB_VERSION + 1))}

MigrateInputs ==
    RootInputs
    \cup {r @@ ("s1" :> a) : r \in RootInputs, a \in SeriesInputs}
    \cup {r @@ ("s1" :> a) @@ ("s2" :> b) :
             r \in RootInputs, a \in UpdateSeries, b \in SecondSeries}

\* ------------------------------------------------------------------------
\* Query layer (db.py 513-623, 690-695).  A string is the sequence of its
\* characters; the needles are drawn from a small alphabet, so int() accepts
\* exactly the non-empty strings of digits (no sign, blank or underscore is
\* in the alphabet).
\* ------------------------------------------------------------------------
MaxNeedle == 3       \* longest needle given to find_single_series

Digits == {"1", "2"}

Alphabet == Digits \cup {"t", "a", "A"}

Needles == SeqsUpTo(Alphabet, MaxNeedle)

\* str.casefold on the alphabet
casefold(s) == [i \in DOMAIN s |-> IF s[i] = "A" THEN "a" ELSE IF s[i] = "B" THEN "b" ELSE s[i]]

\* the operator 'in' on two strings
Contains(part, whole) ==
    \E i \in 0..(Len(whole) - Len(part)) : SubSeq(whole, i + 1, i + Len(part)) = part

\* int(needle) raises ValueError
IntRaises(needle) == needle = << >> \/ \E i \in DOMAIN needle : needle[i] \notin Digits

RECURSIVE IntOf(_)
IntOf(needle) ==
    IF needle = << >> THEN 0
    ELSE 10 * IntOf(SubSeq(needle, 1, Len(needle) - 1))
         + (IF needle[Len(needle)] = "1" THEN 1 ELSE 2)

\* db.py 525-529: the items of the dict but the reserved one (mutant first)
DbIterAll(db) == DOMAIN db

DbIter(db) == {series_id \in DOMAIN db : series_id # meta_key}

\* the items in the order given by rank, which maps each to its position
ItemsInOrder(ids, rank) ==
    [p \in 1..Cardinality(ids) |-> CHOOSE k \in ids : rank[k] = p]

\* filter_map without sort_key: the dict's own order
DictOrder(db) ==
    [k \in DbIter(db) |->
        1 + Cardinality({j \in DbIter(db) : KeyRank(j) < KeyRank(k)})]

\* db.py 513-537, with the identity map: the identifiers that pass the filter
\* (the set passing), in the order of the iteration
filter_map(db, rank, passing) ==
    LET Filter(series_id) == series_id \in passing
    IN  SelectSeq(ItemsInOrder(DbIter(db), rank), Filter)

\* db.py 561-562, 612-613: (list index, identifier); the index is None when
\* the record has none
index_and_series(db, series_id) ==
    << meta_get(db[series_id], meta_list_index_key, PyNone), series_id >>

MapPairs(db, ids) == [i \in DOMAIN ids |-> index_and_series(db, ids[i])]

\* --- indexed_series (db.py 540-566), state = None ---------------------------
CharRank(c) ==
    IF c = "1" THEN 1 ELSE IF c = "2" THEN 2 ELSE IF c = "A" THEN 3 ELSE IF c = "B" THEN 4
    ELSE IF c = "a" THEN 5 ELSE IF c = "b" THEN 6 ELSE 7

\* a < b for two strings
RECURSIVE StrLess(_, _)
StrLess(a, b) ==
    IF b = << >> THEN FALSE
    ELSE IF a = << >> THEN TRUE
    ELSE IF Head(a) = Head(b) THEN StrLess(Tail(a), Tail(b))
    ELSE CharRank(Head(a)) < CharRank(Head(b))

\* db.py 540-542: series['title'] raises KeyError on a record without title
SortKeyRaises(db) == \E k \in DbIter(db) : ~Has(db[k], "title")

\* sorted() is stable: equal titles keep the dict's order (no record of the
\* stores has a 'year', so the second component is [] for all)
TitleBefore(db, j, k) ==
    LET tj == casefold(db[j]["title"])
        tk == casefold(db[k]["title"])
    IN  StrLess(tj, tk) \/ (tj = tk /\ KeyRank(j) < KeyRank(k))

TitleOrder(db) ==
    [k \in DbIter(db) |->
        1 + Cardinality({j \in DbIter(db) : TitleBefore(db, j, k)})]

\* the match predicates given by the callers: none, or 'is archived'
Callbacks == {"none", "archived"}

CallbackPasses(cb, series) == cb = "none" \/ meta_has(series, meta_archived_key)

\* db.py 547-559
IndexedFlt(db, index, match, series_id) ==
    /\ index # PyNone => meta_get(db[series_id], meta_list_index_key, PyNone) = index
    /\ CallbackPasses(match, db[series_id])

indexed_series(db, index, match) ==
    IF SortKeyRaises(db) THEN [raised |-> TRUE, value |-> << >>]
    ELSE LET passing == {series_id \in DbIter(db) : IndexedFlt(db, index, match, series_id)}
         IN  [raised |-> FALSE,
              value  |-> MapPairs(db, filter_map(db, TitleOrder(db), passing))]

\* --- find_single_series (db.py 569-623) ------------------------------------
\* the second and third component of the result hold values of several
\* types: each is a record that names its type
NoneVal == [type |-> "NoneType"]

StrVal(s) == [type |-> "str", v |-> s]

ListVal(l) == [type |-> "list", v |-> l]

\* db.py 570: the message echoes the needle
NothingFound(needle) ==
    << PyNone, NoneVal, [type |-> "str", text |-> "Series not found: ", needle |-> needle] >>

\* a parse without the 'tt' case
NeedleKindNoImdb(needle) == IF ~IntRaises(needle) THEN "index" ELSE "title"

\* db.py 582-588: which of the three ways the needle is read
NeedleKind(needle) ==
    IF ~IntRaises(needle) THEN "index"
    ELSE IF Len(needle) >= 2 /\ SubSeq(needle, 1, 2) = << "t", "t" >> THEN "imdb"
    ELSE "title"

\* db.py 595-610
FindFlt(db, needle, filter_callback, series_id) ==
    LET series == db[series_id]
        kind   == NeedleKind(needle)
    IN  /\ kind = "index" =>
              meta_get(series, meta_list_index_key, PyNone) = IntOf(needle)
        /\ kind = "imdb" => (Has(series, "imdb_id") /\ series["imdb_id"] = needle)
        /\ kind = "title" =>
              Contains(casefold(needle),
                       casefold(IF Has(series, "title") THEN series["title"] ELSE << >>))
        /\ CallbackPasses(filter_callback, series)

\* db.py 615
Found(db, needle, filter_callback) ==
    LET passing == {series_id \in DbIter(db) : FindFlt(db, needle, filter_callback, series_id)}
    IN  MapPairs(db, filter_map(db, DictOrder(db), passing))

find_single_series(db, needle, filter_callback) ==
    IF needle = << >> THEN NothingFound(needle)
    ELSE LET found == Found(db, needle, filter_callback)
         IN  IF Len(found) = 1 THEN << found[1][1], StrVal(found[1][2]), NoneVal >>
             ELSE IF Len(found) > 1 THEN << PyNone, NoneVal, ListVal(found) >>
             ELSE NothingFound(needle)

\* ------------------------------------------------------------------------
\* State derivation (db.py 502-509, 698-718).  A State is the set of its
\* bits; '&' is the intersection and '> 0' is 'not empty'.
\* ------------------------------------------------------------------------
PLANNED   == {1}
STARTED   == {2}
COMPLETED == {4}
ARCHIVED  == {8}
ABANDONED == {16} \cup ARCHIVED

\* series.get(key, default)
Get(series, key, default) == IF Has(series, key) THEN series[key] ELSE default

\* db.py 700
IsEnded(series) == Has(series, "status") /\ series["status"] \in {"ended", "canceled"}

\* db.py 702
NumEpisodes(series) == Len(Get(series, "episodes", << >>))

\* db.py 703: every entry of the watched map counts, whatever its key
NumSeen(series) == Cardinality(DOMAIN meta_get(series, meta_seen_key, EmptyDict))

\* db.py 698-718
series_state(series) ==
    LET is_archived == meta_has(series, meta_archived_key)
        num_seen    == NumSeen(series)
        num_unseen  == NumEpisodes(series) - num_seen
    IN  IF is_archived
        THEN IF num_unseen > 0 THEN ABANDONED ELSE ARCHIVED
        ELSE IF num_seen # 0
        THEN IF num_unseen = 0 /\ IsEnded(series) THEN COMPLETED ELSE STARTED
        ELSE PLANNED

\* ------------------------------------------------------------------------
\* Watched episodes (db.py 626-687).  A key of the watched map is the string
\* '<season>:<episode>', a sequence of characters; the map is iterated in the
\* order its keys were inserted, given as the sequence 'order'.
\* ------------------------------------------------------------------------
\* seen_key.split(':') for a key with one colon
ColonAt(key) == CHOOSE i \in DOMAIN key : key[i] = ":"

SplitKey(key) ==
    << SubSeq(key, 1, ColonAt(key) - 1), SubSeq(key, ColonAt(key) + 1, Len(key)) >>

IsSentinel(key) == SplitKey(key)[1] = << "S" >>

\* db.py 665-673: the greatest (season, episode), seasons compared first
RECURSIVE NextUnseenScan(_, _)
NextUnseenScan(order, last_seen) ==
    IF order = << >> THEN last_seen
    ELSE IF IsSentinel(Head(order)) THEN NextUnseenScan(Tail(order), last_seen)
    ELSE LET season  == IntOf(SplitKey(Head(order))[1])
             episode == IntOf(SplitKey(Head(order))[2])
         IN  IF season > last_seen[1] \/ (season = last_seen[1] /\ episode > last_seen[2])
             THEN NextUnseenScan(Tail(order), << season, episode >>)
             ELSE NextUnseenScan(Tail(order), last_seen)

\* a search that knows no step to the next season
RECURSIVE FirstSuccessorInSeason(_, _)
FirstSuccessorInSeason(episodes, last_seen) ==
    IF episodes = << >> THEN NoneVal
    ELSE LET ep == Head(episodes)
         IN  IF ep.season = last_seen[1] /\ ep.episode = last_seen[2] + 1
             THEN ep
             ELSE FirstSuccessorInSeason(Tail(episodes), last_seen)

\* db.py 678-687: the first episode of the list that follows last_seen
RECURSIVE FirstSuccessor(_, _)
FirstSuccessor(episodes, last_seen) ==
    IF episodes = << >> THEN NoneVal
    ELSE LET ep == Head(episodes)
         IN  IF \/ (ep.season = last_seen[1] /\ ep.episode = last_seen[2] + 1)
                \/ (ep.season = last_seen[1] + 1 /\ ep.episode = 1)
             THEN ep
             ELSE FirstSuccessor(Tail(episodes), last_seen)

\* db.py 657-687
next_unseen_episode(series, order) ==
    LET episodes  == Get(series, "episodes", << >>)
        last_seen == NextUnseenScan(order, << 0, 0 >>)
    IN  IF episodes = << >> THEN NoneVal
        ELSE IF last_seen = << 0, 0 >> THEN episodes[1]
        ELSE FirstSuccessor(episodes, last_seen)

\* db.py 634-642: a key replaces last_seen when its season or its episode is
\* greater; r is << season, episode, seen_time >>
RECURSIVE LastSeenScan(_, _, _)
LastSeenScan(seen, order, r) ==
    IF order = << >> THEN r
    ELSE IF IsSentinel(Head(order)) THEN LastSeenScan(seen, Tail(order), r)
    ELSE LET season  == IntOf(SplitKey(Head(order))[1])
             episode == IntOf(SplitKey(Head(order))[2])
         IN  IF season > r[1] \/ episode > r[2]
             THEN LastSeenScan(seen, Tail(order), << season, episode, seen[Head(order)] >>)
             ELSE LastSeenScan(seen, Tail(order), r)

\* db.py 647-654
RECURSIVE EpisodeAt(_, _)
EpisodeAt(episodes, last_seen) ==
    IF episodes = << >> THEN NoneVal
    ELSE IF Head(episodes).season = last_seen[1] /\ Head(episodes).episode = last_seen[2]
    THEN Head(episodes)
    ELSE EpisodeAt(Tail(episodes), last_seen)

\* db.py 626-654: (episode, seen_time); the first component is 0 when no
\* regular episode is watched
last_seen_episode(series, order) ==
    LET episodes == Get(series, "episodes", << >>)
        seen     == meta_get(series, meta_seen_key, EmptyDict)
        r        == LastSeenScan(seen, order, << 0, 0, PyNone >>)
        ep       == EpisodeAt(episodes, r)
    IN  IF episodes = << >> THEN << NoneVal, PyNone >>
        ELSE IF << r[1], r[2] >> = << 0, 0 >> THEN << [type |-> "int", v |-> 0], PyNone >>
        ELSE IF ep = NoneVal THEN << NoneVal, PyNone >>
        ELSE << ep, r[3] >>

\* ------------------------------------------------------------------------
\* Update-due heuristic (db.py 721-792).  A timestamp is the number of seconds
\* from a fixed origin, which is what datetime.fromisoformat makes of the
\* stored string up to the choice of origin.
\* ------------------------------------------------------------------------
HOUR == 3600
DAY  == 24 * HOUR
WEEK == 7 * DAY

\* db.py 768-770: the sum of the gaps between consecutive entries
RECURSIVE GapSum(_)
GapSum(h) == IF Len(h) < 2 THEN 0 ELSE (h[2] - h[1]) + GapSum(Tail(h))

\* db.py 765-783, 786: now > last_check + update_interval.  The mean of the
\* gaps is the fraction GapSum / (len - 1): the comparison with it is made on
\* the numerators.
Expired(last_check, update_history, now) ==
    LET simple_age_cap == 2 * WEEK
        gaps           == Len(update_history) - 1
    IN  IF Len(update_history) >= 2
        THEN IF GapSum(update_history) >= simple_age_cap * gaps
             THEN now > last_check + simple_age_cap
             ELSE (now - last_check) * gaps > GapSum(update_history)
        ELSE IF now - update_history[Len(update_history)] >= simple_age_cap
             THEN now > last_check + simple_age_cap
             ELSE now > last_check + (now - update_history[Len(update_history)])

\* db.py 725-792
should_update(series, now) ==
    IF ~meta_has(series, meta_update_check_key) THEN TRUE
    ELSE IF series_state(series) \cap (ARCHIVED \cup COMPLETED) # {} THEN FALSE
    ELSE IF IsEnded(series) THEN FALSE
    ELSE IF meta_get(series, meta_update_history_key, << >>) = << >> THEN TRUE
    ELSE Expired(meta_get(series, meta_update_check_key, PyNone),
                 meta_get(series, meta_update_history_key, << >>), now)

\* ------------------------------------------------------------------------
\* Index labels (db.py 826-845)
\* ------------------------------------------------------------------------
MaxLoop == 30        \* iterations of the loop of series_index that are followed

DecChars == << "0", "1", "2", "3", "4", "5", "6", "7", "8", "9" >>

Letters == << "a", "b", "c", "d", "e", "f", "g", "h", "i", "j", "k", "l", "m",
              "n", "o", "p", "q", "r", "s", "t", "u", "v", "w", "x", "y", "z" >>

\* str(n) for n >= 0
RECURSIVE Str(_)
Str(n) == IF n < 10 THEN << DecChars[n + 1] >> ELSE Append(Str(n \div 10), DecChars[(n % 10) + 1])

\* '%02d' % low
Pad2(low) == IF low < 10 THEN << "0" >> \o Str(low) ELSE Str(low)

\* a loop that leaves 'high' as it is
RECURSIVE HighDigitsKeepsHigh(_, _, _)
HighDigitsKeepsHigh(high, high_digits, steps) ==
    IF steps = MaxLoop THEN [ended |-> FALSE, value |-> high_digits]
    ELSE IF high % 26 = 0 THEN [ended |-> TRUE, value |-> high_digits]
    ELSE HighDigitsKeepsHigh(high, << Letters[high % 26] >> \o high_digits, steps + 1)

\* db.py 833-840: the loop; it has not ended when MaxLoop iterations were made
RECURSIVE HighDigits(_, _, _)
HighDigits(high, high_digits, steps) ==
    IF steps = MaxLoop THEN [ended |-> FALSE, value |-> high_digits]
    ELSE IF high % 26 = 0 THEN [ended |-> TRUE, value |-> high_digits]
    ELSE HighDigits(high - (high % 26), << Letters[high % 26] >> \o high_digits, steps + 1)

\* db.py 826-845
series_index(index_number) ==
    IF index_number < 100
    THEN [ended |-> TRUE, value |-> << NoneVal, StrVal(Str(index_number)) >>]
    ELSE LET loop == HighDigits(index_number \div 100, << >>, 0)
         IN  [ended |-> loop.ended,
              value |-> << StrVal(loop.value), StrVal(Pad2(index_number % 100)) >>]

\* ------------------------------------------------------------------------
\* State
\* ------------------------------------------------------------------------
VARIABLES
    db,           \* the store held in memory by the running process
    dirty,        \* the module-level flag _dirty
    alias,        \* pairs of objects whose sub-record is one shared dict
    num_backups,  \* config 'num-backups'
    files,        \* slot -> file; slot 0 is the active path
    tmp1,         \* save's first temporary file (serialized store)
    tmp2,         \* save's second temporary file (compressed store)
    pc,           \* where the process is
    idx,          \* loop variable of _rotate_backups
    muts,         \* Metadata API calls made so far
    last,         \* the last call that ended, and how
    before,       \* the slots as they were when the last save call started
    ok_saves,     \* save calls that installed a snapshot
    saved,        \* the store in memory when the last snapshot was installed
    bad_saves,    \* some save call ended any other way
    m_first,      \* the store given to the first _migrate run
    m_runs,       \* _migrate runs made on db (migration specification)
    m_dirty_in,   \* the flag before the last _migrate run
    m_raised,     \* the last _migrate run ended by an exception
    odd,          \* the file named <active file>.1<ext>, which rollback looks for
    rb,           \* what the last rollback call returned, and what it found:
                  \* the files, the call that ended before it (after) and the
                  \* active file the last save had started with (prev)
    fq,           \* the last find_single_series call and what it returned
    dq,           \* the last call of a derivation function and what it returned
    fan           \* the catalog client's fan-out: its tasks and its result

storeVars   == << db, dirty, alias >>
diskVars    == << num_backups, files, tmp1, tmp2 >>
controlVars == << pc, idx, muts, last, before, ok_saves, saved, bad_saves >>
migrateVars == << m_first, m_runs, m_dirty_in, m_raised >>
auxVars     == << odd, rb, fq, dq, fan >>
vars        == << storeVars, diskVars, controlVars, migrateVars, auxVars >>

\* ------------------------------------------------------------------------
\* Files
\* ------------------------------------------------------------------------
NoFile == [ino |-> 0, enc |-> "none", data |-> EmptyDict]

Exists(f) == f # NoFile

Slots == 0..num_backups

BackupSlots == 1..num_backups

\* mkstemp creates a file that is none of the files there are
NewIno ==
    LET used == {files[i].ino : i \in Slots} \cup {tmp1.ino, tmp2.ino}
    IN  CHOOSE n \in 1..(num_backups + 4) : n \notin used /\ \A k \in 1..(n - 1) : k \in used

\* utils.write_json / read_json_obj: the store as JSON text and back.  JSON
\* has no tuples: the (message, subject) pairs of a change log are written,
\* and read back, as lists.
JsonMeta(m) ==
    IF Has(m, meta_changes_log_key)
    THEN Put(m, meta_changes_log_key,
             [i \in DOMAIN m[meta_changes_log_key] |->
                  [m[meta_changes_log_key][i] EXCEPT !.tuple = FALSE]])
    ELSE m

write_json(store) ==
    [k \in DOMAIN store |->
        IF k = meta_key THEN JsonMeta(store[k])
        ELSE IF Has(store[k], meta_key)
             THEN Put(store[k], meta_key, JsonMeta(store[k][meta_key]))
             ELSE store[k]]

read_json_obj(file) == file.data

\* ------------------------------------------------------------------------
\* Stores found on disk when the process starts
\* ------------------------------------------------------------------------
SeriesWith(history) ==
    ("title" :> << "A" >>)
    @@ (meta_key :> (meta_added_key :> 1 @@ meta_list_index_key :> 1
                     @@ meta_update_history_key :> history))

RootAt(version) ==
    (meta_key :> (meta_version_key :> version @@ meta_next_list_index_key :> 2))

StoreClean     == RootAt(DB_VERSION) @@ ("s1" :> SeriesWith(<< 1, 2 >>))
StoreDups      == RootAt(DB_VERSION) @@ ("s1" :> SeriesWith(<< 1, 1 >>))
StoreUnsorted  == RootAt(DB_VERSION) @@ ("s1" :> SeriesWith(<< 2, 1 >>))
StoreOld       == RootAt(DB_VERSION - 1)
                  @@ ("s1" :> (SeriesWith(<< 1 >>) @@ ("runtime" :> PyNone)))
StoreNoHistory == RootAt(DB_VERSION)
                  @@ ("s1" :> (("title" :> << "A" >>) @@ (meta_key :> (meta_added_key :> 1))))

DiskStores ==
    {StoreClean, StoreDups, StoreUnsorted, StoreOld, StoreNoHistory}

\* a snapshot file that was on disk before the process started
OldFile(slot, store) == [ino |-> 0 - (slot + 1), enc |-> "zst", data |-> store]

\* ------------------------------------------------------------------------
\* Objects the Metadata API is called on: the store itself or a record
\* ------------------------------------------------------------------------
Objs(store) == {"root"} \cup all_ids(store)

ObjOf(store, o) == IF o = "root" THEN store ELSE store[o]

SetObj(store, o, obj) == IF o = "root" THEN obj ELSE Put(store, o, obj)

\* the objects that hold the very dict o holds as its sub-record
AliasOf(o) == {o} \cup {p \in Objs(db) : {o, p} \in alias}

\* a change made in place to o's sub-record shows in every object sharing it
WriteMeta(store, o, m) ==
    LET cls == AliasOf(o)
        d1  == IF "root" \in cls THEN Put(store, meta_key, m) ELSE store
    IN  [k \in DOMAIN d1 |-> IF k \in cls THEN Put(d1[k], meta_key, m) ELSE d1[k]]

\* ------------------------------------------------------------------------
\* Initial states: the process has started (db.py 21: _dirty = True), nothing
\* is loaded; the disk holds no store file at all, or an active file and any
\* subset of the backup slots
\* ------------------------------------------------------------------------
MigrateIdle ==
    /\ m_first = EmptyDict
    /\ m_runs = 0
    /\ m_dirty_in = FALSE
    /\ m_raised = FALSE

\* no rollback call was made
RbNone == [status |-> "none", num_remaining |-> 0, change_log |-> << >>,
           files |-> << >>, odd |-> NoFile, after |-> "none", prev |-> NoFile]

\* no find_single_series call was made
FqNone == [status |-> "none", needle |-> << >>, callback |-> "none",
           result |-> << >>]

\* no derivation function was called
DqNone == [status |-> "none", fn |-> "none", result |-> << >>, order |-> << >>, now |-> 0]

\* the largest number of tasks one fan-out submits (num_seasons, or the
\* length of the id list handed to _parallel_query)
MaxTasks == 3

\* the largest width of the thread pool (max_workers = __parallel_requests)
MaxWorkers == 2

\* a task of the pool that executor.submit has not created yet
TaskNone == [st |-> "unsubmitted", out |-> "none"]

\* no fan-out was started
FanNone == [status |-> "none", fn |-> "none", width |-> 1, n |-> 0,
            submitted |-> 0, task |-> [t \in 1..MaxTasks |-> TaskNone],
            finished |-> << >>, result |-> << >>]

StartState ==
    /\ db = EmptyDict
    /\ dirty = TRUE
    /\ alias = {}
    /\ num_backups \in 1..MaxBackups
    /\ \/ files = [i \in 0..num_backups |-> NoFile]
       \/ \E store \in DiskStores, kept \in SUBSET (1..num_backups) :
             files = [i \in 0..num_backups |->
                         IF i = 0 THEN OldFile(0, store)
                         ELSE IF i \in kept THEN OldFile(i, StoreClean) ELSE NoFile]
    /\ tmp1 = NoFile
    /\ tmp2 = NoFile
    /\ pc = "start"
    /\ idx = 0
    /\ muts = 0
    /\ last = "none"
    /\ before = files
    /\ ok_saves = 0
    /\ saved = EmptyDict
    /\ bad_saves = FALSE
    /\ MigrateIdle
    /\ rb = RbNone
    /\ fq = FqNone
    /\ dq = DqNone
    /\ fan = FanNone

\* nothing creates a file of the name rollback looks for
Init == StartState /\ odd = NoFile

\* ------------------------------------------------------------------------
\* load (db.py 41-97).  Neither the uncompressed file nor the file of the old
\* install location exists, so lines 53-73 create nothing.
\* ------------------------------------------------------------------------

\* db.py 76-79: no active file: an empty store, the flag is not touched
LoadNew ==
    /\ pc = "start"
    /\ ~Exists(files[0])
    /\ db' = EmptyDict
    /\ alias' = {}
    /\ pc' = "idle"
    /\ last' = "loaded"
    /\ UNCHANGED << dirty, diskVars, idx, muts, before, ok_saves, saved, bad_saves,
                    migrateVars, auxVars >>

\* db.py 82-97: parse, clear the flag, migrate, save if the flag is set.
\* The save call made here goes on at SaveMkstemp.  When _migrate raises, the
\* process ends with the flag as _migrate had it at that point.
Load ==
    /\ pc = "start"
    /\ Exists(files[0])
    /\ LET m == _migrate(read_json_obj(files[0]), FALSE)
       IN  IF m.raised
           THEN /\ pc' = "raised"
                /\ last' = "raised"
                /\ dirty' \in BOOLEAN
                /\ UNCHANGED << db, before >>
           ELSE /\ db' = m.db
                /\ dirty' = FALSE
                /\ pc' = IF m.dirty THEN "mkstemp1" ELSE "idle"
                /\ last' = IF m.dirty THEN "loading" ELSE "loaded"
                /\ before' = IF m.dirty THEN files ELSE before
    /\ alias' = {}
    /\ UNCHANGED << diskVars, idx, muts, ok_saves, saved, bad_saves, migrateVars, auxVars >>

\* where the caller of save goes on: load and the front end return to the
\* main loop, the load() made by rollback (db.py 444) returns into rollback
SaveReturn == IF rb.status = "loading" THEN "rb_rename" ELSE "idle"

\* ------------------------------------------------------------------------
\* save (db.py 373-417), one step per file operation
\* ------------------------------------------------------------------------

\* a save that does not look at the flag
SaveCallAlways ==
    /\ pc = "idle"
    /\ dirty' = FALSE
    /\ pc' = "mkstemp1"
    /\ before' = files
    /\ last' = "running"
    /\ UNCHANGED << db, alias, diskVars, idx, muts, ok_saves, saved, bad_saves, migrateVars, auxVars >>

\* db.py 375-379: nothing to do unless dirty; else the flag is cleared first
SaveCall ==
    /\ pc = "idle"
    /\ IF dirty
       THEN /\ dirty' = FALSE
            /\ pc' = "mkstemp1"
            /\ before' = files
            /\ last' = "running"
       ELSE /\ last' = "noop"
            /\ UNCHANGED << dirty, pc, before >>
    /\ UNCHANGED << db, alias, diskVars, idx, muts, ok_saves, saved, bad_saves, migrateVars, auxVars >>

\* db.py 387: tmp_name = mkstemp(...)
SaveMkstemp ==
    /\ pc = "mkstemp1"
    /\ tmp1' = [ino |-> NewIno, enc |-> "empty", data |-> EmptyDict]
    /\ pc' = "write"
    /\ UNCHANGED << storeVars, num_backups, files, tmp2, idx, muts, last, before,
                    ok_saves, saved, bad_saves, migrateVars, auxVars >>

\* db.py 390: err = write_json(tmp_name, db); on an error the file holds
\* nothing or a part of the text
SaveWrite ==
    /\ pc = "write"
    /\ \/ /\ tmp1' = [tmp1 EXCEPT !.enc = "json", !.data = write_json(db)]
          /\ pc' = "backup"
       \/ /\ \E e \in {"empty", "partial"} : tmp1' = [tmp1 EXCEPT !.enc = e]
          /\ pc' = "write_failed"
    /\ UNCHANGED << storeVars, num_backups, files, tmp2, idx, muts, last,
                    before, ok_saves, saved, bad_saves, migrateVars, auxVars >>

\* a failure path that returns without removing the temp file
SaveWriteFailedKeepsTemp ==
    /\ pc = "write_failed"
    /\ last' = "write_failed"
    /\ bad_saves' = TRUE
    /\ pc' = "idle"
    /\ UNCHANGED << storeVars, diskVars, idx, muts, before, ok_saves, saved, migrateVars, auxVars >>

\* db.py 392-395: os.remove(tmp_name); return
SaveWriteFailed ==
    /\ pc = "write_failed"
    /\ tmp1' = NoFile
    /\ last' = "write_failed"
    /\ bad_saves' = TRUE
    /\ pc' = SaveReturn
    /\ UNCHANGED << storeVars, num_backups, files, tmp2, idx, muts, before,
                    ok_saves, saved, migrateVars, auxVars >>

\* db.py 402: os.rename(active_file(), _filename_slot(base_name, 1));
\* FileNotFoundError when there is no active file
SaveBackupActive ==
    /\ pc = "backup"
    /\ IF Exists(files[0])
       THEN /\ files' = [files EXCEPT ![1] = files[0], ![0] = NoFile]
            /\ pc' = "mkstemp2"
            /\ UNCHANGED << last, bad_saves >>
       ELSE /\ pc' = "raised"
            /\ last' = "raised"
            /\ bad_saves' = TRUE
            /\ UNCHANGED files
    /\ UNCHANGED << storeVars, num_backups, tmp1, tmp2, idx, muts, before,
                    ok_saves, saved, migrateVars, auxVars >>

\* db.py 404: tmp_name2 = mkstemp(...)
SaveMkstemp2 ==
    /\ pc = "mkstemp2"
    /\ tmp2' = [ino |-> NewIno, enc |-> "empty", data |-> EmptyDict]
    /\ pc' = "compress"
    /\ UNCHANGED << storeVars, num_backups, files, tmp1, idx, muts, last, before,
                    ok_saves, saved, bad_saves, migrateVars, auxVars >>

\* db.py 405, 343-348, 281-317: the compressor writes the destination and, on
\* exit code 0, the source is removed; on a failure the source stays and the
\* destination holds nothing or a part of the output
SaveCompress ==
    /\ pc = "compress"
    /\ \/ /\ tmp2' = [tmp2 EXCEPT !.enc = "zst", !.data = tmp1.data]
          /\ tmp1' = NoFile
          /\ pc' = "rotate"
          /\ idx' = num_backups - 1
       \/ /\ \E e \in {"empty", "partial"} : tmp2' = [tmp2 EXCEPT !.enc = e]
          /\ pc' = "compress_failed"
          /\ UNCHANGED << tmp1, idx >>
    /\ UNCHANGED << storeVars, num_backups, files, muts, last, before,
                    ok_saves, saved, bad_saves, migrateVars, auxVars >>

\* db.py 406: os.remove(tmp_name)
SaveCompressFailed ==
    /\ pc = "compress_failed"
    /\ tmp1' = NoFile
    /\ pc' = "compress_failed2"
    /\ UNCHANGED << storeVars, num_backups, files, tmp2, idx, muts, last,
                    before, ok_saves, saved, bad_saves, migrateVars, auxVars >>

\* db.py 407-408: os.remove(tmp_name2); return
SaveCompressFailed2 ==
    /\ pc = "compress_failed2"
    /\ tmp2' = NoFile
    /\ last' = "compress_failed"
    /\ bad_saves' = TRUE
    /\ pc' = SaveReturn
    /\ UNCHANGED << storeVars, num_backups, files, tmp1, idx, muts, before,
                    ok_saves, saved, migrateVars, auxVars >>

\* a rotation that renames nothing
RotateOneStays(fs, i) == fs

\* a rotation that copies: the source slot keeps its file
RotateOneCopies(fs, i) ==
    IF Exists(fs[i]) THEN [fs EXCEPT ![i + 1] = fs[i]] ELSE fs

\* one iteration of the loop of _rotate_backups (db.py 366-370)
RotateOne(fs, i) ==
    IF Exists(fs[i]) THEN [fs EXCEPT ![i + 1] = fs[i], ![i] = NoFile] ELSE fs

\* db.py 410: _rotate_backups(base_name), for idx = num_backups - 1 down to 1
SaveRotate ==
    /\ pc = "rotate"
    /\ idx >= 1
    /\ files' = RotateOne(files, idx)
    /\ idx' = idx - 1
    /\ UNCHANGED << storeVars, num_backups, tmp1, tmp2, pc, muts, last,
                    before, ok_saves, saved, bad_saves, migrateVars, auxVars >>

\* db.py 412: os.rename(tmp_name2, active_file())
SaveInstall ==
    /\ pc = "rotate"
    /\ idx < 1
    /\ files' = [files EXCEPT ![0] = tmp2]
    /\ tmp2' = NoFile
    /\ last' = "ok"
    /\ ok_saves' = ok_saves + 1
    /\ saved' = db
    /\ pc' = SaveReturn
    /\ UNCHANGED << storeVars, num_backups, tmp1, idx, muts, before,
                    bad_saves, migrateVars, auxVars >>

SavePcs == {"mkstemp1", "write", "write_failed", "backup", "mkstemp2", "compress",
            "compress_failed", "compress_failed2", "rotate"}

\* the process is killed between two file operations of save
Kill ==
    /\ pc \in SavePcs
    /\ pc' = "killed"
    /\ last' = "killed"
    /\ bad_saves' = TRUE
    /\ UNCHANGED << storeVars, diskVars, idx, muts, before, ok_saves, saved, migrateVars, auxVars >>

\* the process ends; the next one starts with the module's initial flag
Exit ==
    /\ pc = "idle"
    /\ pc' = "start"
    /\ db' = EmptyDict
    /\ dirty' = TRUE
    /\ alias' = {}
    /\ UNCHANGED << diskVars, idx, muts, last, before, ok_saves, saved, bad_saves,
                    migrateVars, auxVars >>

\* ------------------------------------------------------------------------
\* Metadata API calls made by the front end between load and save
\* ------------------------------------------------------------------------
Ratings == {1}

\* a meta_set that does not call set_dirty()
MetaSetKeepsFlag(o, value) ==
    /\ pc = "idle"
    /\ muts < MaxMuts
    /\ db' = WriteMeta(db, o, MetaOf(meta_set(ObjOf(db, o), meta_rating_key, value)))
    /\ muts' = muts + 1
    /\ last' = "meta_set"
    /\ UNCHANGED << dirty, alias, diskVars, pc, idx, before, ok_saves, saved, bad_saves,
                    migrateVars, auxVars >>

\* meta_set(obj, 'rating', value), db.py 468-474
MetaSet(o, value) ==
    /\ pc = "idle"
    /\ muts < MaxMuts
    /\ db' = WriteMeta(db, o, MetaOf(meta_set(ObjOf(db, o), meta_rating_key, value)))
    /\ dirty' = TRUE
    /\ muts' = muts + 1
    /\ last' = "meta_set"
    /\ UNCHANGED << alias, diskVars, pc, idx, before, ok_saves, saved, bad_saves,
                    migrateVars, auxVars >>

\* meta_del(obj, key): the flag, the store and whether KeyError is raised,
\* db.py 477-480
MetaDelCall(o, key, flag) ==
    LET obj == ObjOf(db, o)
    IN  IF meta_del_raises(obj)
        THEN [db |-> db, dirty |-> flag, raised |-> TRUE]
        ELSE [db     |-> WriteMeta(db, o, MetaOf(meta_del(obj, key))),
              dirty  |-> flag \/ meta_del_sets_dirty(obj, key),
              raised |-> FALSE]

\* meta_del(obj, 'rating')
MetaDel(o) ==
    /\ pc = "idle"
    /\ muts < MaxMuts
    /\ LET r == MetaDelCall(o, meta_rating_key, dirty)
       IN  /\ db' = r.db
           /\ dirty' = r.dirty
           /\ pc' = IF r.raised THEN "raised" ELSE pc
           /\ last' = IF r.raised THEN "key_error"
                      ELSE IF meta_del_sets_dirty(ObjOf(db, o), meta_rating_key)
                      THEN "meta_del_hit" ELSE "meta_del_miss"
    /\ muts' = muts + 1
    /\ UNCHANGED << alias, diskVars, idx, before, ok_saves, saved, bad_saves,
                    migrateVars, auxVars >>

\* meta_copy(source, destination), db.py 483-485: the destination holds the
\* source's dict itself when the source has one, a new empty dict otherwise
MetaCopy(src, dst) ==
    /\ pc = "idle"
    /\ muts < MaxMuts
    /\ db' = SetObj(db, dst, meta_copy(ObjOf(db, src), ObjOf(db, dst)))
    /\ alias' =
          IF src = dst /\ Has(ObjOf(db, src), meta_key)
          THEN alias
          ELSE {a \in alias : dst \notin a}
               \cup (IF Has(ObjOf(db, src), meta_key)
                     THEN {{dst, p} : p \in AliasOf(src)}
                     ELSE {})
    /\ dirty' = TRUE
    /\ muts' = muts + 1
    /\ last' = "meta_copy"
    /\ UNCHANGED << diskVars, pc, idx, before, ok_saves, saved, bad_saves,
                    migrateVars, auxVars >>

\* changelog_add(obj, message, subject), db.py 488-492
ChangelogAdd(o) ==
    /\ pc = "idle"
    /\ muts < MaxMuts
    /\ db' = WriteMeta(db, o, MetaOf(changelog_add(ObjOf(db, o), "msg", "None")))
    /\ dirty' = TRUE
    /\ muts' = muts + 1
    /\ last' = "changelog_add"
    /\ UNCHANGED << alias, diskVars, pc, idx, before, ok_saves, saved, bad_saves,
                    migrateVars, auxVars >>

\* changelog_clear(obj), db.py 497-500: the flag is put back to what it was;
\* when meta_del raises KeyError the flag was not touched
ChangelogClear(o) ==
    /\ pc = "idle"
    /\ muts < MaxMuts
    /\ LET r == MetaDelCall(o, meta_changes_log_key, dirty)
       IN  /\ db' = r.db
           /\ dirty' = dirty
           /\ pc' = IF r.raised THEN "raised" ELSE pc
           /\ last' = IF r.raised THEN "changelog_clear_raised" ELSE "changelog_clear"
    /\ muts' = muts + 1
    /\ UNCHANGED << alias, diskVars, idx, before, ok_saves, saved, bad_saves,
                    migrateVars, auxVars >>

Mutate ==
    \E o \in Objs(db) :
        \/ \E value \in Ratings : MetaSet(o, value)
        \/ MetaDel(o)
        \/ \E src \in Objs(db) : MetaCopy(src, o)
        \/ ChangelogAdd(o)
        \/ ChangelogClear(o)

Next ==
    \/ LoadNew
    \/ Load
    \/ SaveCall
    \/ SaveMkstemp
    \/ SaveWrite
    \/ SaveWriteFailed
    \/ SaveBackupActive
    \/ SaveMkstemp2
    \/ SaveCompress
    \/ SaveCompressFailed
    \/ SaveCompressFailed2
    \/ SaveRotate
    \/ SaveInstall
    \/ Kill
    \/ Exit
    \/ Mutate

Spec == Init /\ [][Next]_vars

\* ------------------------------------------------------------------------
\* rollback (db.py 435-457), called by a process that has loaded nothing
\* yet.  db_file is the active file's name, <base>.0<ext>, and first_backup
\* is _filename_slot(db_file, 1) = <base>.0<ext>.1<ext>: the file `odd`, not
\* slot 1, whose name is _filename_slot(base, 1) = <base>.1<ext>.
\* ------------------------------------------------------------------------

\* a file of that name put there by hand
OddFile == [ino |-> 0 - (MaxBackups + 2), enc |-> "zst", data |-> StoreClean]

\* db.py 438-442: if not pexists(first_backup): return None, message, None
RollbackCheck ==
    /\ pc = "start"
    /\ IF Exists(odd)
       THEN /\ pc' = "rb_load"
            /\ rb' = [RbNone EXCEPT !.status = "loading", !.files = files, !.odd = odd,
                                    !.after = last, !.prev = before[0]]
            /\ UNCHANGED last
       ELSE /\ rb' = [RbNone EXCEPT !.status = "no_backup", !.files = files,
                                    !.after = last, !.prev = before[0]]
            /\ last' = "rollback"
            /\ UNCHANGED pc
    /\ UNCHANGED << storeVars, diskVars, idx, muts, before, ok_saves, saved, bad_saves,
                    migrateVars, odd, fq, dq, fan >>

\* db.py 444: load(), as LoadNew and Load; the store it returns is kept in db
RollbackLoad ==
    /\ pc = "rb_load"
    /\ IF ~Exists(files[0])
       THEN /\ db' = EmptyDict
            /\ pc' = "rb_rename"
            /\ UNCHANGED << dirty, last, before, rb >>
       ELSE LET m == _migrate(read_json_obj(files[0]), FALSE)
            IN  IF m.raised
                THEN /\ pc' = "raised"
                     /\ last' = "raised"
                     /\ rb' = [rb EXCEPT !.status = "raised"]
                     /\ dirty' \in BOOLEAN
                     /\ UNCHANGED << db, before >>
                ELSE /\ db' = m.db
                     /\ dirty' = FALSE
                     /\ pc' = IF m.dirty THEN "mkstemp1" ELSE "rb_rename"
                     /\ last' = IF m.dirty THEN "loading" ELSE last
                     /\ before' = IF m.dirty THEN files ELSE before
                     /\ UNCHANGED rb
    /\ alias' = {}
    /\ UNCHANGED << diskVars, idx, muts, ok_saves, saved, bad_saves, migrateVars, odd,
                    fq, dq, fan >>

\* db.py 446-457: os.rename(first_backup, db_file); the loop over the slots
\* 2..num-backups calls _filename_slot(idx) with one argument, which is a
\* TypeError before any file is looked at
RollbackRename ==
    /\ pc = "rb_rename"
    /\ files' = [files EXCEPT ![0] = odd]
    /\ odd' = NoFile
    /\ IF num_backups >= 2
       THEN /\ pc' = "raised"
            /\ last' = "raised"
            /\ rb' = [rb EXCEPT !.status = "raised"]
       ELSE /\ pc' = "start"
            /\ last' = "rollback"
            /\ rb' = [rb EXCEPT !.status = "ok",
                                !.num_remaining = 0,
                                !.change_log = meta_get(db, meta_changes_log_key, << >>)]
    /\ UNCHANGED << storeVars, num_backups, tmp1, tmp2, idx, muts, before, ok_saves,
                    saved, bad_saves, migrateVars, fq, dq, fan >>

RollbackInit == StartState /\ odd \in {NoFile, OddFile}

RollbackNext ==
    \/ Next
    \/ RollbackCheck
    \/ RollbackLoad
    \/ RollbackRename

SpecRollback == RollbackInit /\ [][RollbackNext]_vars

\* ------------------------------------------------------------------------
\* Migration specification: _migrate run, and run again, on a given store
\* ------------------------------------------------------------------------
MigrateInit ==
    /\ db \in MigrateInputs
    /\ dirty \in BOOLEAN
    /\ alias = {}
    /\ num_backups = 1
    /\ files = [i \in 0..1 |-> NoFile]
    /\ tmp1 = NoFile
    /\ tmp2 = NoFile
    /\ pc = "migrate"
    /\ idx = 0
    /\ muts = 0
    /\ last = "none"
    /\ before = files
    /\ ok_saves = 0
    /\ saved = EmptyDict
    /\ bad_saves = FALSE
    /\ m_first = db
    /\ m_runs = 0
    /\ m_dirty_in = dirty
    /\ m_raised = FALSE
    /\ odd = NoFile
    /\ rb = RbNone
    /\ fq = FqNone
    /\ dq = DqNone
    /\ fan = FanNone

\* _migrate(db)
MigrateRun ==
    /\ pc = "migrate"
    /\ m_runs < MaxMigrations
    /\ ~m_raised
    /\ LET m == _migrate(db, dirty)
       IN  /\ db' = m.db
           /\ dirty' = m.dirty
           /\ m_raised' = m.raised
    /\ m_dirty_in' = dirty
    /\ m_runs' = m_runs + 1
    /\ UNCHANGED << alias, diskVars, controlVars, m_first, auxVars >>

\* set_dirty(False), db.py 26-28, as load does before it calls _migrate
MigrateClearFlag ==
    /\ pc = "migrate"
    /\ ~m_raised
    /\ dirty
    /\ dirty' = FALSE
    /\ UNCHANGED << db, alias, diskVars, controlVars, migrateVars, auxVars >>

MigrateNext ==
    \/ MigrateRun
    \/ MigrateClearFlag

SpecMigrate == MigrateInit /\ [][MigrateNext]_vars

\* ------------------------------------------------------------------------
\* Claims about save, load and the dirty flag (specification Spec)
\* ------------------------------------------------------------------------

\* the file a successful save of the store in memory puts at the active path
IsNewSnapshot(f) == Exists(f) /\ f.enc = "zst" /\ f.data = write_json(db)

NoFiles(fs) == \A i \in DOMAIN fs : ~Exists(fs[i])

Backups == {i \in BackupSlots : Exists(files[i])}

\* C1: at every step of a save that started with an active file, and after
\* the process was killed at such a step, the active path holds the complete
\* old snapshot or the complete new one.
ActiveAlwaysComplete ==
    (pc \in SavePcs \cup {"killed"} /\ Exists(before[0]))
        => (files[0] = before[0] \/ IsNewSnapshot(files[0]))

\* C2: a save that was aborted because the compressor failed leaves the
\* active file at the active path with its previous content, and no temp file.
CompressFailureKeepsActive ==
    last = "compress_failed"
        => /\ Exists(files[0])
           /\ files[0] = before[0]
           /\ tmp1 = NoFile
           /\ tmp2 = NoFile

\* C3: a save that was aborted because serialisation failed has removed its
\* temp file and left the active file and every backup slot as they were.
WriteFailureLeavesFiles ==
    last = "write_failed" => (tmp1 = NoFile /\ tmp2 = NoFile /\ files = before)

WriteFailureSeen ==
    /\ last = "write_failed"
    /\ Exists(files[0])
    /\ Backups # {}

\* C4 as stated: once a call has ended, the flag is clear only if the call
\* was a save that installed the new snapshot: neither a load nor a save
\* that was aborted leaves the flag clear.
DirtyClearedOnlyByInstall ==
    (pc = "idle" /\ last \in {"loaded", "write_failed", "compress_failed"}) => dirty

\* C4, amended: the flag goes from true to false only at the entry of a save
\* call that found it set, or in load of an existing active file; meta_set,
\* meta_copy, changelog_add and meta_del of an existing key leave it true.
DirtyClearedOnlyBySaveOrLoad ==
    [][ /\ (dirty /\ ~dirty')
            => \/ pc = "idle" /\ pc' = "mkstemp1"
               \/ pc = "start" /\ Exists(files[0])
        /\ (muts' = muts + 1
              /\ last' \in {"meta_set", "meta_copy", "changelog_add", "meta_del_hit"})
            => dirty'
      ]_vars

AbortedSaveLeftFlagClear ==
    /\ pc = "idle"
    /\ last = "write_failed"
    /\ ~dirty
    /\ muts > 0

\* C5: after num_backups + 1 successful saves in a row, starting from an
\* existing active file, exactly num_backups backup slots are filled, none
\* of them by a file that was there before the first save.
BackupDepthReached ==
    (last = "ok" /\ ~bad_saves /\ ok_saves = num_backups + 1)
        => /\ Cardinality(Backups) = num_backups
           /\ \A i \in Backups : files[i].ino > 0

FirstSaveOnNewStore ==
    /\ (pc = "idle" /\ last = "loaded" /\ NoFiles(files))
          => (db = EmptyDict /\ tmp1 = NoFile /\ tmp2 = NoFile)
    /\ (NoFiles(before) /\ last \in {"ok", "raised"})
          => (last = "ok" /\ IsNewSnapshot(files[0]))

\* C8: a load of an existing active file that ends without an exception
\* goes on to save exactly when migration changed the store it read, and
\* otherwise leaves every file and a clear flag.
LoadSavesIffMigrationChanged ==
    [][ (pc = "start" /\ Exists(files[0]) /\ pc' # "raised")
            => LET changed == db' # read_json_obj(files[0])
               IN  /\ (pc' = "mkstemp1") <=> changed
                   /\ ~dirty'
                   /\ files' = files
      ]_vars

\* ------------------------------------------------------------------------
\* Claims about _migrate (specification SpecMigrate)
\* ------------------------------------------------------------------------
StartVersion == meta_get(m_first, meta_version_key, 0)

\* C9: for a store that starts at version 0..DB_VERSION, a second run of
\* _migrate changes nothing in the store and leaves the flag as it found it.
MigrateIdempotent ==
    [][ (m_runs >= 1 /\ m_runs' = m_runs + 1 /\ ~m_raised'
           /\ StartVersion \in 0..DB_VERSION)
            => (db' = db /\ dirty' = dirty)
      ]_vars

MigratedTwice ==
    /\ m_runs = 2
    /\ ~m_raised
    /\ StartVersion < DB_VERSION
    /\ db # m_first
    /\ ~m_dirty_in
    /\ \E id \in all_ids(m_first) :
          /\ Len(MetaOf(m_first[id])[meta_update_history_key]) = 3
          /\ Len(MetaOf(db[id])[meta_update_history_key]) = 1

\* C10: the stored version never goes down: after _migrate it is at least
\* what it was, and a stored version above DB_VERSION is left as it is.
VersionNeverDecreases ==
    (m_runs >= 1 /\ ~m_raised)
        => /\ meta_get(db, meta_version_key, 0) >= StartVersion
           /\ StartVersion > DB_VERSION
                => meta_get(db, meta_version_key, 0) = StartVersion

\* C11: after _migrate of a store of version < 2 with n records, the records'
\* list indexes are exactly 1..n, each used once, in ascending order of the
\* added-timestamp, the store's next index is n + 1, and the store's own
\* sub-record has no list index.
ListIndexesAssigned ==
    (m_runs >= 1 /\ StartVersion < 2)
        => /\ ~m_raised
           /\ LET ids == all_ids(db)
                  n   == Cardinality(ids)
              IN  /\ \A id \in ids : meta_has(db[id], meta_list_index_key)
                  /\ {MetaOf(db[id])[meta_list_index_key] : id \in ids} = 1..n
                  /\ \A a, b \in ids :
                        (/\ meta_has(db[a], meta_added_key)
                         /\ meta_has(db[b], meta_added_key)
                         /\ MetaOf(db[a])[meta_added_key] < MetaOf(db[b])[meta_added_key])
                            => MetaOf(db[a])[meta_list_index_key]
                                  < MetaOf(db[b])[meta_list_index_key]
                  /\ meta_get(db, meta_next_list_index_key, 0) = n + 1
                  /\ ~MetaHasKey(db[meta_key], meta_list_index_key)

\* a list of timestamps in ascending order without two equal entries
StrictlyAscending(h) == \A i \in 1..(Len(h) - 1) : h[i] < h[i + 1]

\* C12: _migrate ends without an exception on every store, records without
\* an update-history included, and afterwards every update-history is in
\* ascending order without two equal entries.  (Stores below version 2 are
\* left to C11.)
HistorySortedAfterMigrate ==
    (m_runs >= 1 /\ StartVersion >= 2)
        => /\ ~m_raised
           /\ \A id \in all_ids(db) :
                 MetaHasKey(db[id], meta_update_history_key)
                    => StrictlyAscending(MetaOf(db[id])[meta_update_history_key])

\* C13: when _migrate returns, the flag is true if it changed anything in the
\* store (a re-ordered update-history included), and is as it was if it
\* changed nothing.
MigrateDirtyIffChanged ==
    [][ (m_runs' = m_runs + 1 /\ ~m_raised')
            => IF db' # db THEN dirty' ELSE dirty' = dirty
      ]_vars

\* ------------------------------------------------------------------------
\* Round trip and no-op save (specification Spec)
\* ------------------------------------------------------------------------

\* a well-formed store at the current version: every record has an
\* update-history
WellFormed(store) ==
    /\ meta_get(store, meta_version_key, 0) = DB_VERSION
    /\ \A id \in all_ids(store) : MetaHasKey(store[id], meta_update_history_key)

\* the active file is the snapshot the last successful save installed, of a
\* well-formed store
SavedSnapshotActive ==
    /\ ok_saves >= 1
    /\ WellFormed(saved)
    /\ Exists(files[0])
    /\ read_json_obj(files[0]) = write_json(saved)

\* the process starts on that snapshot
LoadsSavedSnapshot == pc = "start" /\ SavedSnapshotActive

SaveNotDirtyIsNoop ==
    [][ (pc = "idle" /\ ~dirty /\ pc' # "start" /\ last' \in {"noop", "running"})
            => /\ files' = files
               /\ tmp1' = tmp1 /\ tmp2' = tmp2
               /\ dirty' = dirty
               /\ pc' = "idle"
      ]_vars

SavedNothing ==
    /\ pc = "idle"
    /\ last = "noop"
    /\ ~dirty
    /\ Exists(files[0])
    /\ Backups # {}
    /\ db # read_json_obj(files[0])

\* ------------------------------------------------------------------------
\* Claims about rollback (specification SpecRollback)
\* ------------------------------------------------------------------------

\* a rollback call has ended, in a directory that held the store's own files
\* only
RollbackEnded == rb.status \in {"no_backup", "ok", "raised"} /\ ~Exists(rb.odd)

\* C16: rollback returns the failure result exactly when backup slot 1 does
\* not exist (its check looks at slot 1), and then it changes no file.
RollbackChecksSlotOne ==
    RollbackEnded
        => /\ (rb.status = "no_backup") <=> ~Exists(rb.files[1])
           /\ (rb.status = "no_backup" /\ last = "rollback") => files = rb.files

\* C17: rollback called when backup slot 1 exists makes slot 1's content the
\* active snapshot, moves every existing slot i of 2..N to slot i - 1,
\* returns the number of slots it moved, and leaves slot N empty.
RollbackRestores ==
    (RollbackEnded /\ Exists(rb.files[1]))
        => /\ rb.status = "ok"
           /\ files[0] = rb.files[1]
           /\ \A i \in 2..num_backups : files[i - 1] = rb.files[i]
           /\ ~Exists(files[num_backups])
           /\ rb.num_remaining
                 = Cardinality({i \in 2..num_backups : Exists(rb.files[i])})

\* ------------------------------------------------------------------------
\* C18: in every store reached by load, migration and Metadata API calls, the
\* reserved identifier is returned neither by all_ids, nor by filter_map, nor
\* by indexed_series, nor by find_single_series, whatever their arguments.
\* ------------------------------------------------------------------------
IdsOfPairs(pairs) == {pairs[i][2] : i \in DOMAIN pairs}

FindIds(result) ==
    IF result[3].type = "list" THEN IdsOfPairs(result[3].v)
    ELSE IF result[2].type = "str" THEN {result[2].v}
    ELSE {}

\* needles of every kind: none, list indexes, IMDb ids, title parts
ProbeNeedles ==
    {needle \in Needles : Len(needle) <= 1}
    \cup {<< "1", "1" >>, << "t", "t" >>, << "t", "t", "1" >>}

ReservedNeverListed ==
    /\ meta_key \notin all_ids(db)
    /\ meta_key \notin Range(filter_map(db, DictOrder(db), DOMAIN db))
    /\ \A index \in {PyNone, 1, 2}, match \in Callbacks :
          meta_key \notin IdsOfPairs(indexed_series(db, index, match).value)
    /\ \A needle \in ProbeNeedles, cb \in Callbacks :
          meta_key \notin FindIds(find_single_series(db, needle, cb))

\* a store with its reserved entry, changed by a Metadata API call after the
\* load, whose record is listed by all four functions
ReservedSkipped ==
    /\ last = "meta_set"
    /\ Has(db, meta_key)
    /\ all_ids(db) # {}
    /\ Len(filter_map(db, DictOrder(db), DOMAIN db)) >= 1
    /\ Len(indexed_series(db, PyNone, "none").value) >= 1
    /\ FindIds(find_single_series(db, << "a" >>, "none")) # {}

\* ------------------------------------------------------------------------
\* C19: every changelog_clear call completes without error, on an object with
\* or without a sub-record, with or without the change-log key; after it the
\* object has no change-log key and the dirty flag is what it was before.
\* ------------------------------------------------------------------------
ChangelogClearCall ==
    muts' = muts + 1 /\ last' \in {"changelog_clear", "changelog_clear_raised"}

ChangelogClearCompletes ==
    [][ChangelogClearCall =>
           /\ last' = "changelog_clear"
           /\ dirty' = dirty
           /\ \E o \in Objs(db) :
                 /\ ~MetaHasKey(ObjOf(db', o), meta_changes_log_key)
                 /\ \A p \in Objs(db) \ AliasOf(o) : ObjOf(db', p) = ObjOf(db, p)]_vars

\* the parts of C19 that the code keeps: the flag, and the key once the call
\* completes
ChangelogClearKeepsFlag ==
    [][ChangelogClearCall =>
           /\ dirty' = dirty
           /\ last' = "changelog_clear" =>
                 \E o \in Objs(db) : ~MetaHasKey(ObjOf(db', o), meta_changes_log_key)]_vars

\* ------------------------------------------------------------------------
\* Lookup specification: find_single_series on a loaded store.  The stores
\* hold up to two records with or without title and IMDb id, archived or
\* not, with unique list indexes.
\* ------------------------------------------------------------------------
FindTitles == {<< "A" >>, << "a", "t" >>, << "t", "t", "1" >>, << "1" >>}

ImdbIds == {<< "t", "t", "1" >>, << "t", "t", "a" >>}

FindRecord(title, imdb, archived, list_index) ==
    title @@ imdb
    @@ (meta_key :> (archived @@ (meta_added_key :> 1 @@ meta_list_index_key :> list_index
                                  @@ meta_update_history_key :> << 1 >>)))

FindFirst ==
    {FindRecord(t, i, a, 1) : t \in OptKey("title", FindTitles),
                              i \in OptKey("imdb_id", ImdbIds),
                              a \in OptKey(meta_archived_key, {1})}

FindSecond ==
    {FindRecord(t, i, EmptyDict, 2) : t \in {("title" :> << "a" >>), ("title" :> << "A", "t" >>)},
                                      i \in OptKey("imdb_id", ImdbIds)}

FindStores ==
    {RootAt(DB_VERSION)}
    \cup {RootAt(DB_VERSION) @@ ("s1" :> a) : a \in FindFirst}
    \cup {RootAt(DB_VERSION) @@ ("s1" :> a) @@ ("s2" :> b) : a \in FindFirst, b \in FindSecond}

\* load() has returned the store of the active file, which needed no migration
FindInit ==
    /\ db \in FindStores
    /\ dirty = FALSE
    /\ alias = {}
    /\ num_backups = 1
    /\ files = [i \in 0..1 |-> IF i = 0 THEN OldFile(0, db) ELSE NoFile]
    /\ tmp1 = NoFile
    /\ tmp2 = NoFile
    /\ pc = "idle"
    /\ idx = 0
    /\ muts = 0
    /\ last = "loaded"
    /\ before = files
    /\ ok_saves = 0
    /\ saved = EmptyDict
    /\ bad_saves = FALSE
    /\ MigrateIdle
    /\ odd = NoFile
    /\ rb = RbNone
    /\ fq = FqNone
    /\ dq = DqNone
    /\ fan = FanNone

\* find_single_series(db, needle, filter_callback)
FindCall ==
    /\ pc = "idle"
    /\ fq.status = "none"
    /\ \E needle \in Needles, cb \in Callbacks :
          fq' = [status |-> "done", needle |-> needle, callback |-> cb,
                 result |-> find_single_series(db, needle, cb)]
    /\ UNCHANGED << storeVars, diskVars, controlVars, migrateVars, odd, rb, dq, fan >>

FindNext == FindCall

SpecFind == FindInit /\ [][FindNext]_vars

\* --- what the specification text calls a match (section 4.6) --------------
\* the needle parses as an integer: the list index is that integer; it starts
\* with 'tt': the IMDb id field equals it; otherwise: the title holds it,
\* whatever the case of the letters.  The caller's filter must pass as well.
IsDigits(needle) == Len(needle) >= 1 /\ \A i \in DOMAIN needle : needle[i] \in Digits

StartsWithTT(needle) == Len(needle) >= 2 /\ needle[1] = "t" /\ needle[2] = "t"

TitleOf(series) == IF Has(series, "title") THEN series["title"] ELSE << >>

TextMatches(series, needle) ==
    IF IsDigits(needle)
    THEN MetaHasKey(series, meta_list_index_key)
         /\ MetaOf(series)[meta_list_index_key] = IntOf(needle)
    ELSE IF StartsWithTT(needle)
    THEN Has(series, "imdb_id") /\ series["imdb_id"] = needle
    ELSE Contains(casefold(needle), casefold(TitleOf(series)))

Matching(store, needle, cb) ==
    {id \in all_ids(store) :
        TextMatches(store[id], needle) /\ CallbackPasses(cb, store[id])}

\* the three shapes of the result
IsSingle(r, store, ids) ==
    /\ r[3] = NoneVal
    /\ r[2].type = "str"
    /\ ids = {r[2].v}
    /\ r[1] = MetaOf(store[r[2].v])[meta_list_index_key]

IsNotFound(r, needle) ==
    /\ r[1] = PyNone
    /\ r[2] = NoneVal
    /\ r[3].type = "str"
    /\ r[3].needle = needle

IsAmbiguous(r, store, ids) ==
    /\ r[1] = PyNone
    /\ r[2] = NoneVal
    /\ r[3].type = "list"
    /\ Len(r[3].v) = Cardinality(ids)
    /\ IdsOfPairs(r[3].v) = ids
    /\ \A i \in DOMAIN r[3].v :
          r[3].v[i][1] = MetaOf(store[r[3].v[i][2]])[meta_list_index_key]

ShapeFits(r, store, needle, ids) ==
    IF Cardinality(ids) = 1 THEN IsSingle(r, store, ids)
    ELSE IF ids = {} THEN IsNotFound(r, needle)
    ELSE IsAmbiguous(r, store, ids)

\* a needle starting with 'tt' finds the records with that IMDb id and no other
TTOnlyImdb(r, store, needle, cb) ==
    StartsWithTT(needle) =>
        FindIds(r) = {id \in all_ids(store) :
                         /\ Has(store[id], "imdb_id")
                         /\ store[id]["imdb_id"] = needle
                         /\ CallbackPasses(cb, store[id])}

MaxEpisodes == 3     \* longest episode list

Ep(season, episode) == [season |-> season, episode |-> episode]

AllEpisodes == << Ep(1, 1), Ep(1, 2), Ep(2, 1), Ep(2, 2) >>

EpisodeLists ==
    {SubSeq(AllEpisodes, 1, n) : n \in 0..(IF MaxEpisodes < 4 THEN MaxEpisodes ELSE 4)}

\* episode_key (db.py 822-823), for the numbers below 3
DigitChar(n) == IF n = 1 THEN "1" ELSE "2"

episode_key(episode) == << DigitChar(episode.season), ":", DigitChar(episode.episode) >>

\* the marker of season 1
SentinelKey == << "S", ":", "1" >>

SeenKeySets(episodes) ==
    {K \cup M : K \in SUBSET {episode_key(episodes[i]) : i \in DOMAIN episodes},
                M \in SUBSET {SentinelKey}}

\* every order the keys of a map can have
Orders(K) ==
    {o \in [1..Cardinality(K) -> K] : \A i, j \in 1..Cardinality(K) : o[i] = o[j] => i = j}

\* the time a key was marked at: its place in the order
SeenMap(order) == [k \in Range(order) |-> CHOOSE i \in DOMAIN order : order[i] = k]

WatchRecord(episodes, order, status, archived) ==
    ("title" :> << "A" >>) @@ status
    @@ (IF episodes = << >> THEN EmptyDict ELSE ("episodes" :> episodes))
    @@ (meta_key :> (archived
                     @@ (IF order = << >> THEN EmptyDict ELSE (meta_seen_key :> SeenMap(order)))
                     @@ (meta_added_key :> 1 @@ meta_list_index_key :> 1
                         @@ meta_update_history_key :> << 1 >>)))

Statuses == OptKey("status", {"ended", "canceled", "returning series"})

\* << record, order of its watched map, now >>
WatchInputs ==
    {<< WatchRecord(e, o, s, a), o, 0 >> :
        e \in EpisodeLists,
        s \in Statuses,
        a \in OptKey(meta_archived_key, {1}),
        o \in UNION {Orders(K) : K \in SeenKeySets(AllEpisodes)}}

MaxDay == 35         \* latest day of a timestamp

\* the days the timestamps fall on; a timestamp is midnight of its day
DueDays == {0, 1, 3, 14, 17, MaxDay}

\* update histories as _migrate leaves them: ascending, no entry twice
DueHistories ==
    {h \in SeqsUpTo(DueDays, MaxHistory) : \A i \in 1..(Len(h) - 1) : h[i] < h[i + 1]}

InSeconds(h) == [i \in DOMAIN h |-> h[i] * DAY]

DueRecord(status, archived, check, history) ==
    ("title" :> << "A" >>) @@ status
    @@ ("episodes" :> << Ep(1, 1) >>)
    @@ (meta_key :> (archived @@ check
                     @@ (meta_added_key :> 1 @@ meta_list_index_key :> 1
                         @@ meta_update_history_key :> InSeconds(history))))

\* a check is never older than the last update it recorded, and now is not
\* before the check
DueInputs ==
    {<< DueRecord(s, a, c, h), << >>, n * DAY >> :
        s \in OptKey("status", {"ended", "returning series"}),
        a \in OptKey(meta_archived_key, {1}),
        c \in OptKey(meta_update_check_key, {d * DAY : d \in DueDays}),
        h \in DueHistories,
        n \in DueDays}

DeriveInputs ==
    {i \in WatchInputs : Range(i[2]) \in SeenKeySets(Get(i[1], "episodes", << >>))}
    \cup {i \in DueInputs :
             LET m == MetaOf(i[1])
             IN  Has(m, meta_update_check_key) =>
                    /\ m[meta_update_check_key] <= i[3]
                    /\ \A j \in DOMAIN m[meta_update_history_key] :
                          m[meta_update_history_key][j] <= m[meta_update_check_key]}

DeriveInit ==
    /\ \E i \in DeriveInputs :
          /\ db = RootAt(DB_VERSION) @@ ("s1" :> i[1])
          /\ dq = [DqNone EXCEPT !.order = i[2], !.now = i[3]]
    /\ dirty = FALSE
    /\ alias = {}
    /\ num_backups = 1
    /\ files = [i \in 0..1 |-> IF i = 0 THEN OldFile(0, db) ELSE NoFile]
    /\ tmp1 = NoFile
    /\ tmp2 = NoFile
    /\ pc = "idle"
    /\ idx = 0
    /\ muts = 0
    /\ last = "loaded"
    /\ before = files
    /\ ok_saves = 0
    /\ saved = EmptyDict
    /\ bad_saves = FALSE
    /\ MigrateIdle
    /\ odd = NoFile
    /\ rb = RbNone
    /\ fq = FqNone
    /\ fan = FanNone

DeriveFrame == UNCHANGED << storeVars, diskVars, controlVars, migrateVars, odd, rb, fq, fan >>

\* series_state(series)
StateCall ==
    /\ pc = "idle"
    /\ dq.status = "none"
    /\ dq' = [dq EXCEPT !.status = "done", !.fn = "series_state",
                        !.result = series_state(db["s1"])]
    /\ DeriveFrame

\* next_unseen_episode(series)
NextUnseenCall ==
    /\ pc = "idle"
    /\ dq.status = "none"
    /\ dq' = [dq EXCEPT !.status = "done", !.fn = "next_unseen_episode",
                        !.result = next_unseen_episode(db["s1"], dq.order)]
    /\ DeriveFrame

\* last_seen_episode(series)
LastSeenCall ==
    /\ pc = "idle"
    /\ dq.status = "none"
    /\ dq' = [dq EXCEPT !.status = "done", !.fn = "last_seen_episode",
                        !.result = last_seen_episode(db["s1"], dq.order)]
    /\ DeriveFrame

\* should_update(series), at the time dq.now
ShouldUpdateCall ==
    /\ pc = "idle"
    /\ dq.status = "none"
    /\ dq' = [dq EXCEPT !.status = "done", !.fn = "should_update",
                        !.result = should_update(db["s1"], dq.now)]
    /\ DeriveFrame

DeriveNext == StateCall \/ NextUnseenCall \/ LastSeenCall \/ ShouldUpdateCall

SpecDerive == DeriveInit /\ [][DeriveNext]_vars

\* --- the decision table of section 4.7 ------------------------------------
\* the watched count: the entries of the watched map that are no season marker
RegularSeen(series) ==
    Cardinality({k \in DOMAIN meta_get(series, meta_seen_key, EmptyDict) : ~IsSentinel(k)})

TableState(series) ==
    LET archived == MetaHasKey(series, meta_archived_key)
        watched  == RegularSeen(series)
        all      == watched = NumEpisodes(series)
    IN  IF archived THEN (IF ~all THEN ABANDONED ELSE ARCHIVED)
        ELSE IF watched > 0 THEN (IF all /\ IsEnded(series) THEN COMPLETED ELSE STARTED)
        ELSE PLANNED

\* ------------------------------------------------------------------------
\* C21: series_state gives the state of the decision table: ABANDONED when
\* archived with an episode unwatched, ARCHIVED when archived with all
\* watched, COMPLETED or STARTED when not archived and some episode is
\* watched (COMPLETED iff all are watched and the status is ended or
\* canceled), PLANNED otherwise; the watched count is the number of regular
\* entries of the watched map, season markers left out.
\* ------------------------------------------------------------------------
StateFollowsTable ==
    (dq.status = "done" /\ dq.fn = "series_state") => dq.result = TableState(db["s1"])

\* the same table with the count the code uses, every entry of the map
EntryTableState(series) ==
    LET archived == MetaHasKey(series, meta_archived_key)
        watched  == NumSeen(series)
    IN  IF archived THEN (IF watched < NumEpisodes(series) THEN ABANDONED ELSE ARCHIVED)
        ELSE IF watched > 0
        THEN (IF watched = NumEpisodes(series) /\ IsEnded(series) THEN COMPLETED ELSE STARTED)
        ELSE PLANNED

StateFollowsEntryTable ==
    (dq.status = "done" /\ dq.fn = "series_state"
     /\ NumSeen(db["s1"]) <= NumEpisodes(db["s1"]))
        => dq.result = EntryTableState(db["s1"])

\* --- the watched maximum, as section 4.6 describes it ---------------------
KeyPair(key) == << IntOf(SplitKey(key)[1]), IntOf(SplitKey(key)[2]) >>

PairLeq(a, b) == a[1] < b[1] \/ (a[1] = b[1] /\ a[2] <= b[2])

RegularPairs(series) ==
    {KeyPair(k) : k \in {x \in DOMAIN meta_get(series, meta_seen_key, EmptyDict) : ~IsSentinel(x)}}

\* the lexicographically greatest watched (season, episode)
WatchedMax(series) ==
    CHOOSE m \in RegularPairs(series) : \A p \in RegularPairs(series) : PairLeq(p, m)

Follows(ep, m) ==
    \/ (ep.season = m[1] /\ ep.episode = m[2] + 1)
    \/ (ep.season = m[1] + 1 /\ ep.episode = 1)

\* ------------------------------------------------------------------------
\* C22: next_unseen_episode returns the first episode of the list when no
\* regular episode is watched (nothing for a list without episodes);
\* otherwise the first episode of the list that follows the greatest watched
\* (season, episode) in the same season or opens the next season; nothing
\* when the greatest watched episode is the last of the list.  Season markers
\* and the order of the watched map do not count.
\* ------------------------------------------------------------------------
NextUnseenFits ==
    (dq.status = "done" /\ dq.fn = "next_unseen_episode") =>
        LET series   == db["s1"]
            episodes == Get(series, "episodes", << >>)
        IN  IF episodes = << >> THEN dq.result = NoneVal
            ELSE IF RegularPairs(series) = {} THEN dq.result = episodes[1]
            ELSE IF << episodes[Len(episodes)].season, episodes[Len(episodes)].episode >>
                    = WatchedMax(series)
            THEN dq.result = NoneVal
            ELSE \E i \in DOMAIN episodes :
                    /\ dq.result = episodes[i]
                    /\ Follows(episodes[i], WatchedMax(series))
                    /\ \A j \in 1..(i - 1) : ~Follows(episodes[j], WatchedMax(series))

\* the first episode of season 2 is next, for a map that holds a season
\* marker and whose greatest key was not inserted last
NextSeasonOpened ==
    /\ dq.status = "done"
    /\ dq.fn = "next_unseen_episode"
    /\ dq.result = Ep(2, 1)
    /\ SentinelKey \in Range(dq.order)
    /\ dq.order[Len(dq.order)] = episode_key(Ep(1, 1))

\* ------------------------------------------------------------------------
\* C27: for a record with a regular episode watched, last_seen_episode
\* returns the episode with the lexicographically greatest watched
\* (season, episode), whatever the order of the watched map, which is the
\* maximum next_unseen_episode computes for the same record.
\* ------------------------------------------------------------------------
LastSeenIsMax ==
    (dq.status = "done" /\ dq.fn = "last_seen_episode"
     /\ RegularPairs(db["s1"]) # {}) =>
        /\ dq.result[1] = Ep(WatchedMax(db["s1"])[1], WatchedMax(db["s1"])[2])
        /\ WatchedMax(db["s1"]) = NextUnseenScan(dq.order, << 0, 0 >>)

\* what holds of the code: the two agree when the keys were inserted in
\* ascending order
LastSeenIsMaxInOrder ==
    (dq.status = "done" /\ dq.fn = "last_seen_episode"
     /\ RegularPairs(db["s1"]) # {}
     /\ \A i, j \in DOMAIN dq.order :
           (i < j /\ ~IsSentinel(dq.order[i]) /\ ~IsSentinel(dq.order[j]))
              => PairLeq(KeyPair(dq.order[i]), KeyPair(dq.order[j]))) =>
        dq.result[1] = Ep(WatchedMax(db["s1"])[1], WatchedMax(db["s1"])[2])

\* --- the interval of section 4.8 ------------------------------------------
\* the claim's case: checked, neither archived nor completed, not ended,
\* with a history
DueCase ==
    /\ dq.status = "done"
    /\ dq.fn = "should_update"
    /\ meta_has(db["s1"], meta_update_check_key)
    /\ series_state(db["s1"]) \cap (ARCHIVED \cup COMPLETED) = {}
    /\ ~IsEnded(db["s1"])
    /\ Len(meta_get(db["s1"], meta_update_history_key, << >>)) >= 1

Min(a, b) == IF a < b THEN a ELSE b

\* now > last_check + interval: the mean gap capped at 2 weeks for a history
\* of two or more, the time since the one entry capped at single_cap otherwise
DueBy(single_cap) ==
    LET h  == meta_get(db["s1"], meta_update_history_key, << >>)
        lc == meta_get(db["s1"], meta_update_check_key, PyNone)
        n  == Len(h) - 1
    IN  IF Len(h) >= 2
        THEN IF GapSum(h) >= 2 * WEEK * n THEN dq.now > lc + 2 * WEEK
             ELSE (dq.now - lc) * n > GapSum(h)
        ELSE dq.now > lc + Min(dq.now - h[1], single_cap)

\* ------------------------------------------------------------------------
\* C23: for a checked record that is neither archived nor completed and not
\* ended, should_update is true exactly when now > last check + interval,
\* the interval being the mean gap of the update history capped at 2 weeks
\* for two or more entries, and the time since the single entry capped at
\* 2 days for one.
\* ------------------------------------------------------------------------
DueAsStated == DueCase => (dq.result = DueBy(2 * DAY))

\* what the code computes: the single entry's age is capped at 2 weeks too
DueWithOneCap == DueCase => (dq.result = DueBy(2 * WEEK))

\* ------------------------------------------------------------------------
\* Label specification: series_index called once on an index number
\* ------------------------------------------------------------------------
MaxIndex == 2700     \* greatest index number given to series_index

\* load() has returned the store; nothing else was called
IdleOn(store) ==
    /\ db = store
    /\ dirty = FALSE
    /\ alias = {}
    /\ num_backups = 1
    /\ files = [i \in 0..1 |-> IF i = 0 THEN OldFile(0, store) ELSE NoFile]
    /\ tmp1 = NoFile
    /\ tmp2 = NoFile
    /\ pc = "idle"
    /\ idx = 0
    /\ muts = 0
    /\ last = "loaded"
    /\ before = files
    /\ ok_saves = 0
    /\ saved = EmptyDict
    /\ bad_saves = FALSE
    /\ MigrateIdle
    /\ odd = NoFile
    /\ rb = RbNone
    /\ fq = FqNone

IndexInit == IdleOn(StoreClean) /\ dq = DqNone /\ fan = FanNone

\* series_index(index_number)
SeriesIndexCall ==
    /\ pc = "idle"
    /\ dq.status = "none"
    /\ \E index_number \in 0..MaxIndex :
          dq' = [dq EXCEPT !.status = "done", !.fn = "series_index",
                           !.now = index_number,
                           !.result = series_index(index_number)]
    /\ DeriveFrame

IndexNext == SeriesIndexCall

SpecIndex == IndexInit /\ [][IndexNext]_vars

\* the number a string of decimal digits stands for
DecDigit(c) == (CHOOSE i \in DOMAIN DecChars : DecChars[i] = c) - 1

RECURSIVE DecValue(_)
DecValue(str) ==
    IF str = << >> THEN 0
    ELSE 10 * DecValue(SubSeq(str, 1, Len(str) - 1)) + DecDigit(str[Len(str)])

\* ------------------------------------------------------------------------
\* C24: series_index ends for every n >= 0; for n < 100 it returns no prefix
\* and the decimal string of n without padding; for n >= 100 it returns
\* n mod 100 as two digits and a prefix of at most one letter, the letter
\* number (n div 100) mod 26 of the alphabet, empty for the remainder 0.
\* ------------------------------------------------------------------------
SeriesIndexFits ==
    (dq.status = "done" /\ dq.fn = "series_index") =>
        LET n      == dq.now
            prefix == dq.result.value[1]
            low    == dq.result.value[2].v
        IN  /\ dq.result.ended
            /\ DecValue(low) = n % 100
            /\ n < 100 =>
                  /\ prefix = NoneVal
                  /\ Len(low) = (IF n < 10 THEN 1 ELSE 2)
            /\ n >= 100 =>
                  /\ Len(low) = 2
                  /\ prefix.type = "str"
                  /\ IF (n \div 100) % 26 = 0 THEN prefix.v = << >>
                     ELSE prefix.v = << Letters[(n \div 100) % 26] >>

\* an index number beyond 26 hundreds, whose label has a letter
LabelWithLetter ==
    /\ dq.status = "done"
    /\ dq.fn = "series_index"
    /\ dq.now = 2700
    /\ dq.result.value = << StrVal(<< "a" >>), StrVal(<< "0", "0" >>) >>

\* ------------------------------------------------------------------------
\* Rotation specification: the file operations of one save, from the rename
\* of the active file on (db.py 402-412), for backup depths 1..MaxDepth and
\* every set of backup slots found on disk.
\* ------------------------------------------------------------------------
MaxDepth == 4        \* greatest 'num-backups' of the rotation specification

RotateInit ==
    /\ db = StoreClean
    /\ dirty = FALSE
    /\ alias = {}
    /\ num_backups \in 1..MaxDepth
    /\ \E kept \in SUBSET (1..num_backups) :
          files = [i \in 0..num_backups |->
                      IF i = 0 \/ i \in kept THEN OldFile(i, StoreClean) ELSE NoFile]
    /\ tmp1 = [ino |-> 1, enc |-> "json", data |-> write_json(db)]
    /\ tmp2 = NoFile
    /\ pc = "backup"
    /\ idx = 0
    /\ muts = 0
    /\ last = "running"
    /\ before = files
    /\ ok_saves = 0
    /\ saved = EmptyDict
    /\ bad_saves = FALSE
    /\ MigrateIdle
    /\ odd = NoFile
    /\ rb = RbNone
    /\ fq = FqNone
    /\ dq = DqNone
    /\ fan = FanNone

RotateNext ==
    \/ SaveBackupActive
    \/ SaveMkstemp2
    \/ SaveCompress
    \/ SaveCompressFailed
    \/ SaveCompressFailed2
    \/ SaveRotate
    \/ SaveInstall

SpecRotate == RotateInit /\ [][RotateNext]_vars

\* the slots when _rotate_backups is called: save has renamed the active
\* file to slot 1
AtRotateCall == [before EXCEPT ![0] = NoFile, ![1] = before[0]]

\* _rotate_backups has returned, the new snapshot is not installed yet
Rotated == pc = "rotate" /\ idx = 0

Kept(f) == \E j \in DOMAIN files : files[j] = f

\* ------------------------------------------------------------------------
\* C26 as stated: after _rotate_backups with depth N, slot i+1 holds what
\* slot i held for every i in 1..N-1 whose slot existed, slot 1 is empty,
\* nothing but the content of slot N is lost, and no slot beyond N is
\* written.
\* ------------------------------------------------------------------------
RotateShiftsUp ==
    /\ Rotated =>
          /\ \A i \in 1..(num_backups - 1) :
                Exists(AtRotateCall[i]) => files[i + 1] = AtRotateCall[i]
          /\ ~Exists(files[1])
          /\ \A i \in 1..num_backups :
                (Exists(AtRotateCall[i]) /\ ~Kept(AtRotateCall[i])) => i = num_backups
    /\ (pc = "rotate" /\ idx >= 1) => idx + 1 <= num_backups

\* C26, amended: the same for a depth of 2 or more; with a depth of 1
\* _rotate_backups renames nothing and slot 1 keeps its file.
RotateShiftsUpFromTwo ==
    /\ Rotated =>
          /\ \A i \in 1..(num_backups - 1) :
                Exists(AtRotateCall[i]) => files[i + 1] = AtRotateCall[i]
          /\ IF num_backups >= 2 THEN ~Exists(files[1]) ELSE files = AtRotateCall
          /\ \A i \in 1..num_backups :
                (Exists(AtRotateCall[i]) /\ ~Kept(AtRotateCall[i])) => i = num_backups
    /\ (pc = "rotate" /\ idx >= 1) => idx + 1 <= num_backups

\* a rotation over a gap: slot 2 was empty, slot 3 moved to the last slot,
\* whose file is lost
RotatedOverGap ==
    /\ Rotated
    /\ num_backups = 4
    /\ ~Exists(before[2])
    /\ Exists(before[3])
    /\ Exists(before[4])
    /\ files[4] = before[3]
    /\ files[2] = before[0]
    /\ ~Exists(files[3])

\* ------------------------------------------------------------------------
\* C28: a rollback called right after a successful save that had started
\* with an active file, with a backup depth of 2 or more, succeeds and makes
\* the snapshot that was active before that save the active one again.
\* ------------------------------------------------------------------------
RollbackUndoesSave ==
    (rb.status \in {"no_backup", "ok", "raised"}
     /\ rb.after = "ok" /\ Exists(rb.prev) /\ num_backups >= 2)
        => (rb.status = "ok" /\ files[0] = rb.prev)

\* ---------------------------------------------------------------------
\* Catalog client: fan-out over the thread pool (tmdb.py)
\* ---------------------------------------------------------------------

\* _query(url): what one request comes to.  "ok": status 200 and a body
\* that resp.json() parses; "http_error": any other status, _query returns
\* None; "exception": requests.get(url) or resp.json() raises.
Outcomes == {"ok", "http_error", "exception"}

\* the functions that fan out: episodes (fetch_season per season), and
\* details and changes over a list of ids (by _parallel_query)
FanFunctions == {"episodes", "details", "changes"}

\* _qurl is mk_url(endpoint, query): both parameters are required, a call
\* with the endpoint alone raises TypeError
QurlRaises(nargs) == nargs # 2

\* details(title_id) of one id: _qurl(detail_path) is evaluated before
\* the first executor.submit
DetailsRaises == QurlRaises(1)

\* what a task of the fan-out can come to: fetch_season and details call
\* _qurl with the endpoint alone, changes calls it with a query
TaskOutcomes(fn) ==
    IF fn = "changes"
    THEN (IF QurlRaises(2) THEN {"exception"} ELSE Outcomes)
    ELSE (IF QurlRaises(1) THEN {"exception"} ELSE Outcomes)

\* the value a task returns: fetch_season(season) gives the season's
\* episodes, [] when _query returned None; details(id) gives the record,
\* None when there is no data; changes(id) gives
\* (data or {}).get('changes', [])
TaskValue(fn, t, out) ==
    IF out # "ok" THEN (IF fn = "details" THEN NoneVal ELSE << >>)
    ELSE IF fn = "episodes" THEN << << t, 1 >>, << t, 2 >> >>
    ELSE << t >>

RECURSIVE Flatten(_)
Flatten(lists) ==
    IF lists = << >> THEN << >>
    ELSE Head(lists) \o Flatten(Tail(lists))

\* promise.result() of every promise, in the order of the list promises
ResultsInOrder(fn, n, task) == [t \in 1..n |-> TaskValue(fn, t, task[t].out)]

\* episodes flattens the seasons' lists; _parallel_query returns the list
Aggregate(fn, n, task) ==
    IF fn = "episodes" THEN Flatten(ResultsInOrder(fn, n, task))
    ELSE ResultsInOrder(fn, n, task)

\* promise.result() re-raises what the task raised
SomeRaised(n, task) == \E t \in 1..n : task[t].out = "exception"

Running(task) == {t \in 1..MaxTasks : task[t].st = "running"}
Queued(task)  == {t \in 1..MaxTasks : task[t].st = "queued"}

FanInit ==
    /\ IdleOn(StoreClean)
    /\ dq = DqNone
    /\ \E width \in 1..MaxWorkers : fan = [FanNone EXCEPT !.width = width]

FanFrame == UNCHANGED << storeVars, diskVars, controlVars, migrateVars, odd, rb, fq, dq >>

\* episodes(series_id) / _parallel_query(func, arg_list) is entered;
\* episodes asks for the series' details first
FanCall ==
    /\ fan.status = "none"
    /\ \E fn \in FanFunctions, n \in 0..MaxTasks :
          fan' = IF fn = "episodes" /\ DetailsRaises
                 THEN [fan EXCEPT !.status = "raised", !.fn = fn]
                 ELSE [fan EXCEPT !.status = "submitting", !.fn = fn, !.n = n]
    /\ FanFrame

\* executor.submit(...), one task of the list comprehension
FanSubmit ==
    /\ fan.status = "submitting"
    /\ fan.submitted < fan.n
    /\ fan' = [fan EXCEPT !.submitted = fan.submitted + 1,
                          !.task[fan.submitted + 1].st = "queued"]
    /\ FanFrame

\* a free worker of the pool takes the oldest queued task
TaskStart ==
    /\ Queued(fan.task) # {}
    /\ Cardinality(Running(fan.task)) < fan.width
    /\ LET t == CHOOSE q \in Queued(fan.task) :
                    \A o \in Queued(fan.task) : q <= o
       IN  fan' = [fan EXCEPT !.task[t].st = "running"]
    /\ FanFrame

\* a running task ends: its request came to one of Outcomes
TaskFinish ==
    /\ \E t \in Running(fan.task), out \in TaskOutcomes(fan.fn) :
          fan' = [fan EXCEPT !.task[t] = [st |-> "done", out |-> out],
                             !.finished = Append(fan.finished, t)]
    /\ FanFrame

\* concurrent.futures.wait(promises) returns
FanWait ==
    /\ fan.status = "submitting"
    /\ fan.submitted = fan.n
    /\ \A t \in 1..fan.n : fan.task[t].st = "done"
    /\ fan' = [fan EXCEPT !.status = "collecting"]
    /\ FanFrame

\* [ promise.result() for promise in promises ]
FanCollect ==
    /\ fan.status = "collecting"
    /\ fan' = IF SomeRaised(fan.n, fan.task)
              THEN [fan EXCEPT !.status = "raised"]
              ELSE [fan EXCEPT !.status = "returned",
                               !.result = Aggregate(fan.fn, fan.n, fan.task)]
    /\ FanFrame

FanNext == FanCall \/ FanSubmit \/ TaskStart \/ TaskFinish \/ FanWait \/ FanCollect

SpecFanout == FanInit /\ [][FanNext]_vars

\* what the batch is to return: every task's value in submission order,
\* a failed task counting as an empty list
FanExpected ==
    LET value(t) == IF fan.task[t].out = "ok"
                    THEN TaskValue(fan.fn, t, "ok") ELSE << >>
        each == [t \in 1..fan.n |-> value(t)]
    IN  IF fan.fn = "episodes" THEN Flatten(each) ELSE each

\* the fan-out is past concurrent.futures.wait
FanJoined == fan.status \in {"collecting", "returned", "raised"}

FanAllDone == \A t \in 1..fan.n : fan.task[t].st = "done"

\* C25: the fan-out returns only after every submitted task has finished,
\* its result holds the tasks' values in submission order whatever the
\* order of completion, and a failed task gives an empty part of the
\* result: the batch is never aborted.
FanOutDegrades ==
    /\ FanJoined => FanAllDone
    /\ fan.status = "returned" => fan.result = FanExpected
    /\ fan.status # "raised"

\* C25, without the tasks that raise: the join and the order hold always,
\* the batch is aborted only if a task raised or episodes never got to
\* its fan-out, and a task whose request came back with a status other
\* than 200 gives an empty part.
FanOutDegradesOnStatus ==
    /\ FanJoined => FanAllDone
    /\ fan.status = "returned" => fan.result = FanExpected
    /\ fan.status = "raised" =>
          \/ SomeRaised(fan.n, fan.task)
          \/ fan.fn = "episodes" /\ fan.submitted = 0

\* only changes, and a fan-out over no task at all, ever returns
FanOnlyChangesReturns ==
    fan.status = "returned" => fan.fn = "changes" \/ fan.n = 0

\* a batch that returned although a task got a status other than 200 and
\* the tasks finished in another order than submitted
FanReturnedOutOfOrder ==
    /\ fan.status = "returned"
    /\ fan.n = MaxTasks
    /\ \E t \in 1..fan.n : fan.task[t].out = "http_error"
    /\ \E i \in 1..(Len(fan.finished) - 1) : fan.finished[i] > fan.finished[i + 1]

====
